---- MODULE Spec2Model ----
(***************************************************************************)
(* Model of supabase-sql-dev-runner: the SqlRunner.run() pipeline          *)
(* (core/runner.ts), the SqlExecutor it drives (core/executor.ts) and the  *)
(* file scanner (core/file-scanner.ts).                                    *)
(*                                                                         *)
(* Strings are sequences of character codes, so that sorting, regular      *)
(* expression tests and path handling are computed, not assumed.           *)
(* run() is an async function: one action per stretch of synchronous code  *)
(* between two awaits.  The positions "loop", "catch" and "finally" are    *)
(* not awaits; the interrupt handler cannot run there.                     *)
(*                                                                         *)
(* Environment: every operation awaited on the pg client (connect, each    *)
(* statement, end) may resolve or reject; readSqlFile may throw; each of   *)
(* the caller's callbacks may return or throw; SIGINT may arrive at any    *)
(* await while the listener of run() is registered.  The run() calls on    *)
(* one SqlRunner follow one another, they do not overlap.                  *)
(*                                                                         *)
(* Spec is the SqlRunner driving its executor.  ExecSpec is a SqlExecutor  *)
(* used directly: a caller awaits its methods one after the other, in any  *)
(* order, starting from an executor just constructed or connected.         *)
(***************************************************************************)
EXTENDS Integers, Sequences, FiniteSets, TLC

\* ------------------------------------------------------------------------
\* Bounds of the model
\* ------------------------------------------------------------------------

\* number of run() invocations made, one after the other, on one SqlRunner
MaxRuns == 2

\* number of SqlExecutor methods called directly, one after the other
MaxCalls == 2

\* number of times the watcher invokes onExecute
MaxExecutions == 2

\* number of entries of a directory that scanSqlFiles is called on directly
MaxEntries == 3
\* options that the command line and the config file set between them
MaxOptions == 2
\* files in the execution list of each of two overlapping run() invocations
MaxOverlapFiles == 1

\* ------------------------------------------------------------------------
\* Character codes and file names
\* ------------------------------------------------------------------------

ChSlash == <<47>>
DotSql == <<46, 115, 113, 108>>
IgnoredPrefix == <<95, 105, 103, 110, 111, 114, 101, 100>>
ReadmeWord == <<82, 69, 65, 68, 77, 69>>

\* "1.sql", "10.sql", "2.sql", "9.sql", "_ignored.sql", "n.txt"
F1 == <<49>> \o DotSql
F10 == <<49, 48>> \o DotSql
F2 == <<50>> \o DotSql
F9 == <<57>> \o DotSql
FIgn == IgnoredPrefix \o DotSql
FTxt == <<110, 46, 116, 120, 116>>

\* "README.sql", "A.SQL"
FReadme == ReadmeWord \o DotSql
FUpper == <<65, 46, 83, 81, 76>>

\* the resolved directory "/d"
ResolvedDir == <<47, 100>>

\* directory listings readdirSync may return (in directory order, unsorted)
Listings ==
  { <<>>,
    <<FTxt, FIgn>>,
    <<F1>>,
    <<F2, FTxt, F10>>,
    <<F2, FIgn, F10, F1>> }

\* values of config.databaseUrl, as new URL() sees them ("" is the empty
\* string; the constructor rejects only a missing or empty URL)
DatabaseUrls ==
  { [parses |-> TRUE, hostname |-> "h", username |-> "u"],
    [parses |-> FALSE, hostname |-> "", username |-> ""],
    [parses |-> TRUE, hostname |-> "", username |-> "u"],
    [parses |-> TRUE, hostname |-> "h", username |-> ""] }

\* what config.sqlDirectory resolves to: nothing, a file, or a directory
Directories ==
  { [exists |-> FALSE, isDirectory |-> FALSE],
    [exists |-> TRUE, isDirectory |-> FALSE],
    [exists |-> TRUE, isDirectory |-> TRUE] }

\* "CONFIRM", and what a user may type at the prompt instead
confirmationPhrase == <<67, 79, 78, 70, 73, 82, 77>>
Answers ==
  { confirmationPhrase,
    <<>>,
    <<99, 111, 110, 102, 105, 114, 109>>,
    confirmationPhrase \o <<32>>,
    <<121>> }

\* arguments of SqlExecutor methods called directly: file paths whose names
\* sanitize to the same string ("/d/a-b.sql", "/d/a_b.sql"), positions in
\* the run, and a savepoint name with a double quote in it (s"p)
ExecPaths ==
  { <<47, 100, 47, 97, 45, 98>> \o DotSql,
    <<47, 100, 47, 97, 95, 98>> \o DotSql }
ExecIndices == {0, 1, 10}
SavepointArgs == { <<115, 34, 112>> }

\* what readSqlFile returns for a path: " x\ny" for "/d/a-b.sql", an empty
\* file otherwise
SqlContent(filePath) ==
  IF filePath[5] = 45 THEN <<32, 120, 10, 121>> ELSE <<>>

\* values a rejected client.query() may carry: a pg error without position,
\* with a position (1-based character offset, here on the second line and
\* past the end of the text), and a value that is not an Error
ThrownValues ==
  { [isError |-> TRUE, message |-> "syntax error", hasPosition |-> FALSE,
     position |-> 0],
    [isError |-> TRUE, message |-> "syntax error", hasPosition |-> TRUE,
     position |-> 4],
    [isError |-> TRUE, message |-> "syntax error", hasPosition |-> TRUE,
     position |-> 9],
    [isError |-> FALSE, message |-> "String error", hasPosition |-> FALSE,
     position |-> 0] }

\* values of options.onlyFiles and options.skipFiles (<<>> is "not given")
\* the entries a directory scanned directly is made of
ScanNames == {F1, F10, F2, FIgn, FTxt, FReadme, FUpper}

\* the sequences of k distinct names: what readdirSync may return
RECURSIVE DistinctSeqs(_, _)
DistinctSeqs(names, k) ==
  IF k = 0 THEN { <<>> }
  ELSE { <<f>> \o rest : f \in names, rest \in DistinctSeqs(names, k - 1) }

ScanListings ==
  { l \in UNION { DistinctSeqs(ScanNames, k) : k \in 0..MaxEntries } :
      \A a, b \in DOMAIN l : a # b => l[a] # l[b] }

OnlyChoices == { <<>>, <<F2, F9>>, <<F9>>, <<F2, F10>> }
SkipChoices == { <<>>, <<F10>>, <<F2, F1, F10>> }

\* ------------------------------------------------------------------------
\* Pure functions
\* ------------------------------------------------------------------------

Min(a, b) == IF a < b THEN a ELSE b

\* s starts with p / ends with p / contains p
StartsWith(s, p) ==
  /\ Len(p) <= Len(s)
  /\ SubSeq(s, 1, Len(p)) = p

EndsWith(s, p) ==
  /\ Len(p) <= Len(s)
  /\ SubSeq(s, Len(s) - Len(p) + 1, Len(s)) = p

Contains(s, p) ==
  \E k \in 1..(Len(s) + 1) :
    /\ k + Len(p) - 1 <= Len(s)
    /\ SubSeq(s, k, k + Len(p) - 1) = p

\* Array.prototype.sort() default comparison: code unit order
LexLess(a, b) ==
  \E k \in 1..(Min(Len(a), Len(b)) + 1) :
    /\ \A j \in 1..(k - 1) : a[j] = b[j]
    /\ \/ k > Len(a) /\ k <= Len(b)
       \/ k <= Len(a) /\ k <= Len(b) /\ a[k] < b[k]

RECURSIVE Insert(_, _)
Insert(x, s) ==
  IF s = <<>> THEN <<x>>
  ELSE IF LexLess(x, Head(s)) THEN <<x>> \o s
  ELSE <<Head(s)>> \o Insert(x, Tail(s))

RECURSIVE Sort(_)
Sort(s) == IF s = <<>> THEN <<>> ELSE Insert(Head(s), Sort(Tail(s)))

Range(s) == { s[k] : k \in DOMAIN s }

\* parseDatabaseUrl without the check of the username
parseDatabaseUrlHostOnly(url) ==
  IF ~url.parses THEN "Invalid database URL format"
  ELSE IF url.hostname = "" THEN "Missing hostname in database URL"
  ELSE "none"

\* parseDatabaseUrl: the error it throws, "none" when it returns a config
parseDatabaseUrl(url) ==
  IF ~url.parses THEN "Invalid database URL format"
  ELSE IF url.hostname = "" THEN "Missing hostname in database URL"
  ELSE IF url.username = "" THEN "Missing username in database URL"
  ELSE "none"

\* scanSqlFiles: the error of its directory validation, "none" when it passes
validateDirectory(dir) ==
  IF ~dir.exists THEN "SQL directory not found"
  ELSE IF ~dir.isDirectory THEN "Path is not a directory"
  ELSE "none"

\* DEFAULT_FILE_PATTERN /\.sql$/ and DEFAULT_IGNORE_PATTERN /^_ignored|README/
DEFAULT_FILE_PATTERN(name) == EndsWith(name, DotSql)
DEFAULT_IGNORE_PATTERN(name) ==
  StartsWith(name, IgnoredPrefix) \/ Contains(name, ReadmeWord)

\* path.join(resolvedDir, file) and path.basename(filePath)
PathJoin(dir, file) == dir \o ChSlash \o file

RECURSIVE Basename(_)
Basename(p) ==
  IF \E k \in DOMAIN p : p[k] = 47
    THEN Basename(Tail(p))
    ELSE p

\* scanSqlFiles without the test of ignorePattern on the executable side
scanSqlFilesIgnoredInFiles(allEntries) ==
  LET IsSql(f) == DEFAULT_FILE_PATTERN(f)
      sqlFiles == SelectSeq(allEntries, IsSql)
      executableFiles == Sort(sqlFiles)
      ignoredFiles == Sort(SelectSeq(sqlFiles, DEFAULT_IGNORE_PATTERN))
  IN  [ files |-> executableFiles,
        ignoredFiles |-> ignoredFiles,
        filePaths |-> [k \in DOMAIN executableFiles |->
                         PathJoin(ResolvedDir, executableFiles[k])] ]

\* scanSqlFiles without the sort: files stay in directory order
scanSqlFilesUnsorted(allEntries) ==
  LET IsSql(f) == DEFAULT_FILE_PATTERN(f)
      IsExec(f) == ~DEFAULT_IGNORE_PATTERN(f)
      sqlFiles == SelectSeq(allEntries, IsSql)
      executableFiles == SelectSeq(sqlFiles, IsExec)
      ignoredFiles == SelectSeq(sqlFiles, DEFAULT_IGNORE_PATTERN)
  IN  [ files |-> executableFiles,
        ignoredFiles |-> ignoredFiles,
        filePaths |-> [k \in DOMAIN executableFiles |->
                         PathJoin(ResolvedDir, executableFiles[k])] ]

\* scanSqlFiles: filter by pattern, split off ignored entries, sort, add paths
scanSqlFiles(allEntries) ==
  LET IsSql(f) == DEFAULT_FILE_PATTERN(f)
      IsExec(f) == ~DEFAULT_IGNORE_PATTERN(f)
      sqlFiles == SelectSeq(allEntries, IsSql)
      executableFiles == Sort(SelectSeq(sqlFiles, IsExec))
      ignoredFiles == Sort(SelectSeq(sqlFiles, DEFAULT_IGNORE_PATTERN))
  IN  [ files |-> executableFiles,
        ignoredFiles |-> ignoredFiles,
        filePaths |-> [k \in DOMAIN executableFiles |->
                         PathJoin(ResolvedDir, executableFiles[k])] ]

\* run(): the onlyFiles / skipFiles filtering of names and paths
Pairs(names, paths) ==
  [k \in DOMAIN names |-> [name |-> names[k], path |-> paths[k]]]

\* an onlyFiles filter that walks the requested names, not the scanned ones
ApplyOnlyInRequestOrder(names, paths, onlyFiles) ==
  IF Len(onlyFiles) > 0
    THEN LET Scanned(f) == f \in Range(names)
             kept == SelectSeq(onlyFiles, Scanned)
         IN  [ names |-> kept,
               paths |-> [k \in DOMAIN kept |-> PathJoin(ResolvedDir, kept[k])] ]
    ELSE [names |-> names, paths |-> paths]

ApplyOnly(names, paths, onlyFiles) ==
  IF Len(onlyFiles) > 0
    THEN LET InOnly(f) == f.name \in Range(onlyFiles)
             filtered == SelectSeq(Pairs(names, paths), InOnly)
         IN  [ names |-> [k \in DOMAIN filtered |-> filtered[k].name],
               paths |-> [k \in DOMAIN filtered |-> filtered[k].path] ]
    ELSE [names |-> names, paths |-> paths]

ApplySkip(names, paths, skipFiles) ==
  IF Len(skipFiles) > 0
    THEN LET NotSkipped(f) == f.name \notin Range(skipFiles)
             filtered == SelectSeq(Pairs(names, paths), NotSkipped)
         IN  [ names |-> [k \in DOMAIN filtered |-> filtered[k].name],
               paths |-> [k \in DOMAIN filtered |-> filtered[k].path] ]
    ELSE [names |-> names, paths |-> paths]

FilterFiles(scan, onlyFiles, skipFiles) ==
  LET a == ApplyOnly(scan.files, scan.filePaths, onlyFiles)
  IN  ApplySkip(a.names, a.paths, skipFiles)

\* the "Requested files not found" warning: names of onlyFiles not scanned
NotFound(scan, onlyFiles) ==
  LET found == ApplyOnly(scan.files, scan.filePaths, onlyFiles).names
      Missing(f) == f \notin Range(found)
  IN  SelectSeq(onlyFiles, Missing)

\* createSavepointName: sp_<sanitized>_<index>
IsAlnum(ch) ==
  \/ ch \in 48..57
  \/ ch \in 65..90
  \/ ch \in 97..122

RECURSIVE Digits(_)
Digits(n) == IF n < 10 THEN <<48 + n>> ELSE Digits(n \div 10) \o <<48 + (n % 10)>>

\* a savepoint name built from the file name alone
createSavepointNameNoIndex(fileName, index) ==
  LET sanitized == [k \in DOMAIN fileName |->
                      IF IsAlnum(fileName[k]) THEN fileName[k] ELSE 95]
  IN  <<115, 112, 95>> \o sanitized

createSavepointName(fileName, index) ==
  LET sanitized == [k \in DOMAIN fileName |->
                      IF IsAlnum(fileName[k]) THEN fileName[k] ELSE 95]
  IN  <<115, 112, 95>> \o sanitized \o <<95>> \o Digits(index)

\* quoteSqlIdentifier: wrap in double quotes, double the embedded ones
RECURSIVE DoubleQuotes(_)
DoubleQuotes(s) ==
  IF s = <<>> THEN <<>>
  ELSE (IF Head(s) = 34 THEN <<34, 34>> ELSE <<Head(s)>>) \o DoubleQuotes(Tail(s))

quoteSqlIdentifier(identifier) == <<34>> \o DoubleQuotes(identifier) \o <<34>>

\* formatError: message of an Error, String(error) of anything else (the
\* message field of a thrown value that is not an Error stands for its
\* string conversion)
formatError(error, fileName) ==
  IF error.isError
    THEN [ message |-> error.message, hasPosition |-> error.hasPosition,
           position |-> error.position, fileName |-> fileName ]
    ELSE [ message |-> error.message, hasPosition |-> FALSE, position |-> 0,
           fileName |-> fileName ]

\* sql.split('\n')
RECURSIVE Split(_)
Split(sql) ==
  IF \E k \in DOMAIN sql : sql[k] = 10
    THEN LET k == CHOOSE n \in DOMAIN sql :
                    sql[n] = 10 /\ \A m \in 1..(n - 1) : sql[m] # 10
         IN  <<SubSeq(sql, 1, k - 1)>> \o Split(SubSeq(sql, k + 1, Len(sql)))
    ELSE <<sql>>

\* String.prototype.trim
IsSpace(ch) == ch \in {9, 10, 13, 32}

RECURSIVE Trim(_)
Trim(str) ==
  IF str = <<>> THEN <<>>
  ELSE IF IsSpace(Head(str)) THEN Trim(Tail(str))
  ELSE IF IsSpace(str[Len(str)]) THEN Trim(SubSeq(str, 1, Len(str) - 1))
  ELSE str

\* getLineFromPosition: the loop over the lines, then the fallback
RECURSIVE LineFrom(_, _, _, _)
LineFrom(lines, k, currentPos, position) ==
  IF k > Len(lines)
    THEN [ line |-> Len(lines), column |-> 1,
           lineContent |-> Trim(lines[Len(lines)]) ]
    ELSE LET lineLength == Len(lines[k]) + 1
         IN  IF currentPos + lineLength >= position
               THEN [ line |-> k, column |-> position - currentPos,
                      lineContent |-> Trim(lines[k]) ]
               ELSE LineFrom(lines, k + 1, currentPos + lineLength, position)

getLineFromPosition(sql, position) == LineFrom(Split(sql), 1, 0, position)

\* ' '.repeat(lineInfo.column - 1) throws a RangeError for a negative count
PointerThrows(sqlError, sql) ==
  /\ sqlError.hasPosition
  /\ LET lineInfo == getLineFromPosition(sql, sqlError.position)
     IN  lineInfo.lineContent # <<>> /\ lineInfo.column - 1 < 0

\* createSummary counting every result as successful
createSummaryCountsAll(res, ignoredFiles, committed) ==
  LET Bad(r) == ~r.success
      successfulFiles == Len(res)
      failedFiles == Len(SelectSeq(res, Bad))
  IN  [ totalFiles |-> Len(res),
        successfulFiles |-> successfulFiles,
        failedFiles |-> failedFiles,
        results |-> res,
        allSuccessful |-> (failedFiles = 0),
        committed |-> committed,
        ignoredFiles |-> ignoredFiles ]

\* createSummary
createSummary(res, ignoredFiles, committed) ==
  LET Ok(r) == r.success
      Bad(r) == ~r.success
      successfulFiles == Len(SelectSeq(res, Ok))
      failedFiles == Len(SelectSeq(res, Bad))
  IN  [ totalFiles |-> Len(res),
        successfulFiles |-> successfulFiles,
        failedFiles |-> failedFiles,
        results |-> res,
        allSuccessful |-> (failedFiles = 0),
        committed |-> committed,
        ignoredFiles |-> ignoredFiles ]

\* ------------------------------------------------------------------------
\* State
\* ------------------------------------------------------------------------

VARIABLES
  databaseUrl,     \* config.databaseUrl (fixed at construction)
  runNo,           \* which run() invocation this is
  pc,              \* position of run(): an await, or "loop"/"catch"/"finally"
  executor,        \* this.executor is not null
  client,          \* executor.client: "null", or the pg client's condition
  abortRequested,  \* this.abortRequested
  sigintListeners, \* number of registered SIGINT listeners of this runner
  opts,            \* the RunOptions of this invocation
  scan,            \* scanResult
  fileNames,       \* fileNames after filtering
  filesToExecute,  \* filesToExecute (paths) after filtering
  i,               \* loop index (0-based)
  results,         \* results
  log,             \* operations issued on the pg client, in order
  cbs,             \* lifecycle callback invocations, in order
  warnings,        \* "Requested files not found" warnings
  prompt,          \* requestConfirmation(): the terminal and the readline prompt
  call,            \* a SqlExecutor method called directly, and its locals
  scanner,         \* scanSqlFiles() called directly: the directory, the result
  handler,         \* a ConnectionErrorHandler: its registry, error, help
  watcher,         \* startWatcher(): its closure variables and the timers
  merger,          \* ConfigMerger.merge(): its arguments and its result
  runs,            \* two run() invocations in flight on one SqlRunner
  err,             \* exception in flight ("none" when there is none)
  outcome          \* how run() completes: running / returned / threw

vars == << databaseUrl, runNo, pc, executor, client, abortRequested,
           sigintListeners, opts, scan, fileNames, filesToExecute, i,
           results, log, cbs, warnings, prompt, call, scanner, handler,
           watcher, merger, runs, err, outcome >>

\* the state of the parts that are used on their own, without a SqlRunner
libraryVars == << scanner, handler, watcher, merger, runs >>

EmptyScan == [files |-> <<>>, ignoredFiles |-> <<>>, filePaths |-> <<>>]
NoOpts == [onlyFiles |-> <<>>, skipFiles |-> <<>>, dryRun |-> FALSE,
           skipConfirmation |-> FALSE]
Running == [kind |-> "running"]
Returned(summary) == [kind |-> "returned", summary |-> summary]
Threw(e) == [kind |-> "threw", error |-> e]

\* DEFAULT_CONFIG.requireConfirmation
requireConfirmation == TRUE

\* requestConfirmation has not been called in this invocation
NoPrompt ==
  [ asked |-> FALSE, isTTY |-> FALSE, event |-> "none", answer |-> <<>>,
    answered |-> FALSE, closed |-> FALSE, resolved |-> <<>> ]

\* no error was formatted (the `error` of a successful result is undefined)
NoSqlError ==
  [message |-> "", hasPosition |-> FALSE, position |-> 0, fileName |-> <<>>]

\* no SqlExecutor method has been called directly
NoCall ==
  [ n |-> 0, method |-> "none", at |-> "none", name |-> <<>>,
    filePath |-> <<>>, index |-> 0, sql |-> <<>>, sqlError |-> NoSqlError,
    result |-> "none", ret |-> "none", names |-> <<>> ]

\* scanSqlFiles has not been called directly
NoScan ==
  [ called |-> FALSE, directory |-> [exists |-> TRUE, isDirectory |-> TRUE],
    allEntries |-> <<>>, threw |-> "none", result |-> EmptyScan ]

\* the values thrown at the classifier: an Error (with the code of a Node.js
\* system error, or none), a TypeError, or a value that is not an Error
AnError(code, message) ==
  [isError |-> TRUE, isTypeError |-> FALSE, code |-> code, message |-> message]

ATypeError(message) ==
  [isError |-> TRUE, isTypeError |-> TRUE, code |-> "", message |-> message]

NotAnError(text) ==
  [isError |-> FALSE, isTypeError |-> FALSE, code |-> "", message |-> text]

\* the ConnectionContext: databaseUrl is optional
NoUrl == [defined |-> FALSE, databaseUrl |-> <<>>]
Url(text) == [defined |-> TRUE, databaseUrl |-> text]

\* no error was classified yet
NoError == NotAnError(<<>>)
NoHelp ==
  [ isKnownError |-> FALSE, title |-> "", explanation |-> <<>>,
    originalMessage |-> <<>> ]

\* a handler over an empty registry, nothing called yet
NoHandler ==
  [ detectors |-> <<>>, registered |-> 0, method |-> "none",
    error |-> NoError, context |-> NoUrl, detector |-> 0, help |-> NoHelp ]

\* startWatcher has not been called.  timeouts is the list of the pending
\* setTimeout timers (seconds until each is due); countdownTimer is 0 for
\* null, the position in timeouts of the timer it refers to, or -1 when
\* that timer has fired.  inFlight, invocations, sinceChange, queued and
\* event record what happened: the onExecute promises not yet settled, the
\* onExecute calls made, the seconds since the change that started the
\* countdown (-1: none since the last call), a change answered with
\* "change queued" that no countdown or run has followed, the last event.
NoWatcher ==
  [ started |-> FALSE, countdownSeconds |-> 0, timeouts |-> <<>>,
    countdownTimer |-> 0, countdownInterval |-> FALSE,
    secondsRemaining |-> 0, isExecuting |-> FALSE, closed |-> FALSE,
    inFlight |-> 0, invocations |-> 0, sinceChange |-> -1,
    queued |-> FALSE, warnings |-> 0, event |-> "none" ]

\* ConfigMerger.merge has not been called
NoMerge ==
  [ called |-> FALSE, argv |-> <<>>, fileConfig |-> <<>>,
    cliArgs |-> <<>>, result |-> <<>> ]

\* no run() invocation of the overlapping pair has started: this.executor
\* is undefined, the executor a run creates has number r and no client yet;
\* overlapped records that one was called while the other was in flight.
\* An invocation awaits operation op on the client of executor on; ops
\* holds the operations it has awaited, each with the executor and the
\* way it settled
NoRun ==
  [ pc |-> "idle", i |-> 0, results |-> <<>>, op |-> "none", on |-> 0,
    ops |-> {}, err |-> "none", outcome |-> "running",
    committed |-> FALSE ]

NoRuns ==
  [ executor |-> 0, abortRequested |-> FALSE, sigintListeners |-> 0,
    clients |-> << "none", "none" >>,
    inv |-> << NoRun, NoRun >>, overlapped |-> FALSE ]

\* an operation issued on the pg client; ok is "pending" until it settles
Stmt(op, arg) == [op |-> op, arg |-> arg, ok |-> "pending"]

\* the log once the operation in flight (always the last entry) has settled
Settled(ok) ==
  [log EXCEPT ![Len(log)].ok = IF ok THEN "ok" ELSE "failed"]

\* the awaits during which the SIGINT listener of run() is registered
HandlerAwaits ==
  {"savepoint", "query", "release", "rollback_to", "abort_rollback",
   "fail_rollback"}

Init ==
  /\ databaseUrl \in DatabaseUrls
  /\ runNo = 1
  /\ pc = "idle"
  /\ executor = FALSE
  /\ client = "null"
  /\ abortRequested = FALSE
  /\ sigintListeners = 0
  /\ opts = NoOpts
  /\ scan = EmptyScan
  /\ fileNames = <<>>
  /\ filesToExecute = <<>>
  /\ i = 0
  /\ results = <<>>
  /\ log = <<>>
  /\ cbs = <<>>
  /\ warnings = <<>>
  /\ prompt = NoPrompt
  /\ call = NoCall
  /\ scanner = NoScan
  /\ handler = NoHandler
  /\ watcher = NoWatcher
  /\ merger = NoMerge
  /\ runs = NoRuns
  /\ err = "none"
  /\ outcome = Running

\* ------------------------------------------------------------------------
\* requestConfirmation(): the handlers of the readline interface
\* ------------------------------------------------------------------------

\* resolve(value) of the promise returned by requestConfirmation
Resolve(p, value) == [p EXCEPT !.resolved = Append(@, value)]

\* a 'close' handler that resolves without looking at `answered`
OnCloseUnguarded(p) == Resolve([p EXCEPT !.answered = TRUE], FALSE)

\* rl.on('close'): the stream closed, or rl.close() was called
OnClose(p) ==
  IF ~p.answered
    THEN Resolve([p EXCEPT !.answered = TRUE], FALSE)
    ELSE p

\* rl.close(): closes the interface once and emits 'close'
RlClose(p) == IF p.closed THEN p ELSE OnClose([p EXCEPT !.closed = TRUE])

\* rl.on('error')
OnError(p) ==
  IF ~p.answered
    THEN Resolve(RlClose([p EXCEPT !.answered = TRUE, !.event = "error"]),
                 FALSE)
    ELSE p

\* rl.on('SIGINT')
OnSigint(p) ==
  IF ~p.answered
    THEN Resolve(RlClose([p EXCEPT !.answered = TRUE, !.event = "SIGINT"]),
                 FALSE)
    ELSE p

\* the input stream ended: readline closes the interface and emits 'close'
OnStreamClose(p) == RlClose([p EXCEPT !.event = "close"])

\* the callback of rl.question
OnAnswer(p, answer) ==
  IF ~p.answered
    THEN Resolve(RlClose([p EXCEPT !.answered = TRUE, !.event = "line",
                                   !.answer = answer]),
                 answer = confirmationPhrase)
    ELSE p

\* requestConfirmation() up to the promise it returns
requestConfirmation(isTTY) ==
  IF ~isTTY
    THEN [NoPrompt EXCEPT !.asked = TRUE, !.resolved = <<FALSE>>]
    ELSE [NoPrompt EXCEPT !.asked = TRUE, !.isTTY = TRUE]

\* ------------------------------------------------------------------------
\* Fragments of run() shared by several actions
\* ------------------------------------------------------------------------

\* control reaches the catch block of run() with exception e
Raise(e) ==
  /\ pc' = "catch"
  /\ err' = e
  /\ outcome' = outcome

\* run() executes `return summary`; the finally block follows
Return(summary) ==
  /\ pc' = "finally"
  /\ err' = err
  /\ outcome' = Returned(summary)

\* new SqlExecutor(...); await this.executor.connect()
CreateExecutorAndConnect ==
  /\ executor' = TRUE
  /\ client' = "new"
  /\ log' = Append(log, Stmt("CONNECT", <<>>))
  /\ pc' = "connect"
  /\ err' = err
  /\ outcome' = outcome

\* ------------------------------------------------------------------------
\* run(): from the call to the first await
\* ------------------------------------------------------------------------

StartRun(listing, dir, onlyFiles, skipFiles, dryRun, skipConfirmation, isTTY) ==
  /\ pc = "idle"
  /\ opts' = [onlyFiles |-> onlyFiles, skipFiles |-> skipFiles,
              dryRun |-> dryRun, skipConfirmation |-> skipConfirmation]
  /\ UNCHANGED << libraryVars, databaseUrl, runNo, call, abortRequested, sigintListeners,
                  i, results, cbs >>
  /\ IF parseDatabaseUrl(databaseUrl) # "none"
       THEN \* parseDatabaseUrl throws
            /\ Raise("url")
            /\ UNCHANGED << executor, client, scan, fileNames,
                            filesToExecute, log, warnings, prompt >>
     ELSE IF validateDirectory(dir) # "none"
       THEN \* scanSqlFiles throws
            /\ Raise("dir")
            /\ UNCHANGED << executor, client, scan, fileNames,
                            filesToExecute, log, warnings, prompt >>
     ELSE
       LET scanResult == scanSqlFiles(listing)
           filtered == FilterFiles(scanResult, onlyFiles, skipFiles)
           notFound == NotFound(scanResult, onlyFiles)
       IN
       /\ scan' = scanResult
       /\ IF Len(scanResult.files) = 0
            THEN /\ Return(createSummary(results, scanResult.ignoredFiles, FALSE))
                 /\ UNCHANGED << executor, client, fileNames, filesToExecute,
                                 log, warnings, prompt >>
            ELSE
              /\ fileNames' = filtered.names
              /\ filesToExecute' = filtered.paths
              /\ warnings' = IF Len(onlyFiles) > 0 /\ Len(notFound) > 0
                               THEN Append(warnings, notFound)
                               ELSE warnings
              /\ IF dryRun
                   THEN /\ Return(createSummary(results,
                                                scanResult.ignoredFiles, FALSE))
                        /\ UNCHANGED << executor, client, log, prompt >>
                 ELSE IF requireConfirmation /\ ~skipConfirmation
                   THEN /\ pc' = "confirm"
                        /\ prompt' = requestConfirmation(isTTY)
                        /\ UNCHANGED << executor, client, log, err, outcome >>
                 ELSE /\ CreateExecutorAndConnect
                      /\ UNCHANGED prompt

\* an event of the readline interface while the question is open
PromptEvent(event, answer) ==
  /\ pc = "confirm"
  /\ prompt.resolved = <<>>
  /\ prompt' = CASE event = "error" -> OnError(prompt)
                  [] event = "SIGINT" -> OnSigint(prompt)
                  [] event = "close" -> OnStreamClose(prompt)
                  [] event = "line" -> OnAnswer(prompt, answer)
  /\ UNCHANGED << libraryVars, databaseUrl, runNo, pc, executor, client, abortRequested,
                  sigintListeners, opts, scan, fileNames, filesToExecute, i,
                  results, log, cbs, warnings, call, err, outcome >>

\* the promise of requestConfirmation() has resolved: run() goes on
Confirm ==
  /\ pc = "confirm"
  /\ prompt.resolved # <<>>
  /\ UNCHANGED << libraryVars, databaseUrl, runNo, prompt, call, abortRequested, sigintListeners, opts,
                  scan, fileNames, filesToExecute, i, results, cbs, warnings >>
  /\ IF ~Head(prompt.resolved)
       THEN /\ Return(createSummary(results, scan.ignoredFiles, FALSE))
            /\ UNCHANGED << executor, client, log >>
       ELSE CreateExecutorAndConnect

\* client.connect() settles; on success beginTransaction() issues BEGIN
ConnectDone(ok) ==
  /\ pc = "connect"
  /\ UNCHANGED << libraryVars, databaseUrl, runNo, prompt, call, executor, abortRequested,
                  sigintListeners, opts, scan, fileNames, filesToExecute, i,
                  results, cbs, warnings >>
  /\ IF ok
       THEN /\ client' = "open"
            /\ log' = Append(Settled(TRUE), Stmt("BEGIN", <<>>))
            /\ pc' = "begin"
            /\ UNCHANGED << err, outcome >>
       ELSE /\ client' = "failed"
            /\ Raise("connect")
            /\ log' = Settled(FALSE)

\* BeginDone without the reset of the cancellation flag (line 207)
BeginDoneNoReset(ok) ==
  /\ pc = "begin"
  /\ UNCHANGED << libraryVars, databaseUrl, runNo, prompt, call, executor, client, opts, scan,
                  fileNames, filesToExecute, results, cbs, warnings >>
  /\ log' = Settled(ok)
  /\ IF ok
       THEN /\ UNCHANGED abortRequested
            /\ sigintListeners' = sigintListeners + 1
            /\ i' = 0
            /\ pc' = "loop"
            /\ UNCHANGED << err, outcome >>
       ELSE /\ Raise("begin")
            /\ UNCHANGED << abortRequested, sigintListeners, i >>

\* BEGIN settles; on success the SIGINT handler is installed, the loop starts
BeginDone(ok) ==
  /\ pc = "begin"
  /\ UNCHANGED << libraryVars, databaseUrl, runNo, prompt, call, executor, client, opts, scan,
                  fileNames, filesToExecute, results, cbs, warnings >>
  /\ log' = Settled(ok)
  /\ IF ok
       THEN /\ abortRequested' = FALSE
            /\ sigintListeners' = sigintListeners + 1
            /\ i' = 0
            /\ pc' = "loop"
            /\ UNCHANGED << err, outcome >>
       ELSE /\ Raise("begin")
            /\ UNCHANGED << abortRequested, sigintListeners, i >>

\* ------------------------------------------------------------------------
\* run(): the file loop, with SqlExecutor.executeFile unfolded at its awaits
\* ------------------------------------------------------------------------

CurPath == filesToExecute[i + 1]
CurName == fileNames[i + 1]
\* executeFile derives the file name and the savepoint from the path
CurFileName == Basename(CurPath)
CurSavepoint == createSavepointName(CurFileName, i)

\* rollback(): issues the outer ROLLBACK and awaits it at position `at`
IssueRollback(base, at) ==
  /\ log' = Append(base, Stmt("ROLLBACK", <<>>))
  /\ pc' = at
  /\ UNCHANGED << err, outcome >>

\* LoopHead without the abort check after the loop (lines 275-278)
LoopHeadNoFinalCheck(beforeThrows, readFails) ==
  /\ pc = "loop"
  /\ UNCHANGED << libraryVars, databaseUrl, runNo, prompt, call, executor, client, abortRequested, opts,
                  scan, fileNames, filesToExecute, i, results, warnings >>
  /\ IF abortRequested /\ i < Len(filesToExecute)
       THEN \* lines 225-228 in the loop only
            /\ IssueRollback(log, "abort_rollback")
            /\ UNCHANGED << sigintListeners, cbs >>
     ELSE IF i < Len(filesToExecute)
       THEN /\ cbs' = Append(cbs, [cb |-> "onBeforeFile", file |-> CurName,
                                   index |-> i,
                                   total |-> Len(filesToExecute)])
            /\ IF beforeThrows
                 THEN /\ Raise("onBeforeFile")
                      /\ sigintListeners' = sigintListeners - 1
                      /\ UNCHANGED log
               ELSE IF readFails
                 THEN \* readSqlFile throws before the try of executeFile
                      /\ Raise("read")
                      /\ sigintListeners' = sigintListeners - 1
                      /\ UNCHANGED log
               ELSE /\ log' = Append(log, Stmt("SAVEPOINT",
                                       quoteSqlIdentifier(CurSavepoint)))
                    /\ pc' = "savepoint"
                    /\ UNCHANGED << sigintListeners, err, outcome >>
     ELSE \* loop finished, no abort: remove the handler and commit
          /\ sigintListeners' = sigintListeners - 1
          /\ log' = Append(log, Stmt("COMMIT", <<>>))
          /\ pc' = "commit"
          /\ UNCHANGED << cbs, err, outcome >>

\* the head of an iteration, and the code after the loop, up to the next await
LoopHead(beforeThrows, readFails) ==
  /\ pc = "loop"
  /\ UNCHANGED << libraryVars, databaseUrl, runNo, prompt, call, executor, client, abortRequested, opts,
                  scan, fileNames, filesToExecute, i, results, warnings >>
  /\ IF abortRequested
       THEN \* lines 225-228 in the loop, 275-278 after it
            /\ IssueRollback(log, "abort_rollback")
            /\ UNCHANGED << sigintListeners, cbs >>
     ELSE IF i < Len(filesToExecute)
       THEN /\ cbs' = Append(cbs, [cb |-> "onBeforeFile", file |-> CurName,
                                   index |-> i,
                                   total |-> Len(filesToExecute)])
            /\ IF beforeThrows
                 THEN /\ Raise("onBeforeFile")
                      /\ sigintListeners' = sigintListeners - 1
                      /\ UNCHANGED log
               ELSE IF readFails
                 THEN \* readSqlFile throws before the try of executeFile
                      /\ Raise("read")
                      /\ sigintListeners' = sigintListeners - 1
                      /\ UNCHANGED log
               ELSE /\ log' = Append(log, Stmt("SAVEPOINT",
                                       quoteSqlIdentifier(CurSavepoint)))
                    /\ pc' = "savepoint"
                    /\ UNCHANGED << sigintListeners, err, outcome >>
     ELSE \* loop finished, no abort: remove the handler and commit
          /\ sigintListeners' = sigintListeners - 1
          /\ log' = Append(log, Stmt("COMMIT", <<>>))
          /\ pc' = "commit"
          /\ UNCHANGED << cbs, err, outcome >>

\* the catch block of executeFile: ROLLBACK TO SAVEPOINT is attempted
FileCatch ==
  /\ log' = Append(Settled(FALSE),
                   Stmt("ROLLBACK TO", quoteSqlIdentifier(CurSavepoint)))
  /\ pc' = "rollback_to"
  /\ UNCHANGED << sigintListeners, i, results, cbs, err, outcome >>

\* AfterFile without the stop on failure: the loop goes on to the next file
AfterFileNoStop(result, settled, afterThrows) ==
  /\ results' = Append(results, result)
  /\ cbs' = Append(cbs, [cb |-> "onAfterFile", result |-> result])
  /\ IF afterThrows
       THEN /\ Raise("onAfterFile")
            /\ sigintListeners' = sigintListeners - 1
            /\ log' = settled
            /\ UNCHANGED i
       ELSE /\ i' = i + 1
            /\ pc' = "loop"
            /\ log' = settled
            /\ UNCHANGED << sigintListeners, err, outcome >>

\* executeFile returned `result`: push, onAfterFile, stop on failure
AfterFile(result, settled, afterThrows) ==
  /\ results' = Append(results, result)
  /\ cbs' = Append(cbs, [cb |-> "onAfterFile", result |-> result])
  /\ IF afterThrows
       THEN /\ Raise("onAfterFile")
            /\ sigintListeners' = sigintListeners - 1
            /\ log' = settled
            /\ UNCHANGED i
     ELSE IF ~result.success
       THEN /\ IssueRollback(settled, "fail_rollback")
            /\ UNCHANGED << sigintListeners, i >>
     ELSE /\ i' = i + 1
          /\ pc' = "loop"
          /\ log' = settled
          /\ UNCHANGED << sigintListeners, err, outcome >>

FileResult(success, rollbackSuccess) ==
  [ fileName |-> CurFileName,
    filePath |-> CurPath,
    success |-> success,
    savepointName |-> CurSavepoint,
    error |-> IF success THEN "none" ELSE "sqlError",
    rollbackSuccess |-> rollbackSuccess ]

\* SAVEPOINT settles; on success the file content is sent as one batch
SavepointDone(ok) ==
  /\ pc = "savepoint"
  /\ UNCHANGED << libraryVars, databaseUrl, runNo, prompt, call, executor, client, abortRequested, opts,
                  scan, fileNames, filesToExecute, warnings >>
  /\ IF ok
       THEN /\ log' = Append(Settled(TRUE), Stmt("QUERY", CurPath))
            /\ pc' = "query"
            /\ UNCHANGED << sigintListeners, i, results, cbs, err, outcome >>
       ELSE FileCatch

\* the batch settles; on success RELEASE SAVEPOINT is issued
QueryDone(ok) ==
  /\ pc = "query"
  /\ UNCHANGED << libraryVars, databaseUrl, runNo, prompt, call, executor, client, abortRequested, opts,
                  scan, fileNames, filesToExecute, warnings >>
  /\ IF ok
       THEN /\ log' = Append(Settled(TRUE),
                              Stmt("RELEASE", quoteSqlIdentifier(CurSavepoint)))
            /\ pc' = "release"
            /\ UNCHANGED << sigintListeners, i, results, cbs, err, outcome >>
       ELSE FileCatch

\* RELEASE settles; on success executeFile returns a successful result
ReleaseDone(ok, afterThrows) ==
  /\ pc = "release"
  /\ UNCHANGED << libraryVars, databaseUrl, runNo, prompt, call, executor, client, abortRequested, opts,
                  scan, fileNames, filesToExecute, warnings >>
  /\ IF ok
       THEN AfterFile(FileResult(TRUE, "undefined"), Settled(TRUE), afterThrows)
       ELSE FileCatch

\* ROLLBACK TO SAVEPOINT settles; executeFile returns a failing result
RollbackToDone(ok, afterThrows) ==
  /\ pc = "rollback_to"
  /\ UNCHANGED << libraryVars, databaseUrl, runNo, prompt, call, executor, client, abortRequested, opts,
                  scan, fileNames, filesToExecute, warnings >>
  /\ AfterFile(FileResult(FALSE, ok), Settled(ok), afterThrows)

\* RollbackDone reporting the rolled back run as committed
RollbackDoneCommitted(ok) ==
  /\ pc \in {"abort_rollback", "fail_rollback"}
  /\ UNCHANGED << libraryVars, databaseUrl, runNo, prompt, call, executor, client, abortRequested, opts,
                  scan, fileNames, filesToExecute, i, results, cbs, warnings >>
  /\ log' = Settled(ok)
  /\ sigintListeners' = sigintListeners - 1
  /\ IF ok
       THEN Return(createSummary(results, scan.ignoredFiles, TRUE))
       ELSE Raise("rollback")

\* the outer ROLLBACK of the loop (abort or failure) settles
RollbackDone(ok) ==
  /\ pc \in {"abort_rollback", "fail_rollback"}
  /\ UNCHANGED << libraryVars, databaseUrl, runNo, prompt, call, executor, client, abortRequested, opts,
                  scan, fileNames, filesToExecute, i, results, cbs, warnings >>
  /\ log' = Settled(ok)
  /\ sigintListeners' = sigintListeners - 1
  /\ IF ok
       THEN Return(createSummary(results, scan.ignoredFiles, FALSE))
       ELSE Raise("rollback")

\* COMMIT settles; on success the summary is built and onComplete invoked
CommitDone(ok, completeThrows) ==
  /\ pc = "commit"
  /\ UNCHANGED << libraryVars, databaseUrl, runNo, prompt, call, executor, client, abortRequested,
                  sigintListeners, opts, scan, fileNames, filesToExecute, i,
                  results, warnings >>
  /\ log' = Settled(ok)
  /\ IF ok
       THEN LET summary == createSummary(results, scan.ignoredFiles, TRUE)
            IN  /\ cbs' = Append(cbs, [cb |-> "onComplete",
                                       summary |-> summary])
                /\ IF completeThrows
                     THEN Raise("onComplete")
                     ELSE Return(summary)
       ELSE /\ Raise("commit")
            /\ UNCHANGED cbs

\* a SIGINT listener that rolls back at once instead of setting the flag only
SigintInterrupts ==
  /\ sigintListeners > 0
  /\ pc \in HandlerAwaits
  /\ ~abortRequested
  /\ abortRequested' = TRUE
  /\ log' = Append(log, Stmt("ROLLBACK", <<>>))
  /\ pc' = "abort_rollback"
  /\ UNCHANGED << libraryVars, databaseUrl, runNo, prompt, call, executor, client, sigintListeners,
                  opts, scan, fileNames, filesToExecute, i, results, cbs,
                  warnings, err, outcome >>

\* the SIGINT listener installed by run()
Sigint ==
  /\ sigintListeners > 0
  /\ pc \in HandlerAwaits
  /\ ~abortRequested
  /\ abortRequested' = TRUE
  /\ UNCHANGED << libraryVars, databaseUrl, runNo, prompt, call, pc, executor, client, sigintListeners,
                  opts, scan, fileNames, filesToExecute, i, results, log, cbs,
                  warnings, err, outcome >>

\* ------------------------------------------------------------------------
\* run(): catch and finally
\* ------------------------------------------------------------------------

\* the catch block up to its await: onError, then the best-effort rollback
CatchBlock(errorThrows) ==
  /\ pc = "catch"
  /\ UNCHANGED << libraryVars, databaseUrl, runNo, prompt, call, executor, client, abortRequested,
                  sigintListeners, opts, scan, fileNames, filesToExecute, i,
                  results, warnings >>
  /\ cbs' = Append(cbs, [cb |-> "onError", error |-> err])
  /\ IF errorThrows
       THEN \* the callback's exception leaves the catch block
            /\ err' = "onError"
            /\ outcome' = Threw("onError")
            /\ pc' = "finally"
            /\ UNCHANGED log
     ELSE IF executor /\ client # "null"
       THEN /\ log' = Append(log, Stmt("ROLLBACK", <<>>))
            /\ pc' = "catch_rollback"
            /\ UNCHANGED << err, outcome >>
     ELSE \* no executor, or ensureConnected throws and is swallowed
          /\ outcome' = Threw(err)
          /\ pc' = "finally"
          /\ UNCHANGED << err, log >>

\* the rollback of the catch block settles; its failure is swallowed
CatchRollbackDone(ok) ==
  /\ pc = "catch_rollback"
  /\ log' = Settled(ok)
  /\ outcome' = Threw(err)
  /\ pc' = "finally"
  /\ UNCHANGED << libraryVars, databaseUrl, runNo, prompt, call, executor, client, abortRequested,
                  sigintListeners, opts, scan, fileNames, filesToExecute, i,
                  results, cbs, warnings, err >>

\* a disconnect placed on the return path only, not in a finally block
FinallyOnReturnOnly ==
  /\ pc = "finally"
  /\ UNCHANGED << libraryVars, databaseUrl, runNo, prompt, call, executor, client, abortRequested,
                  sigintListeners, opts, scan, fileNames, filesToExecute, i,
                  results, cbs, warnings, err, outcome >>
  /\ IF executor /\ client # "null" /\ outcome.kind = "returned"
       THEN /\ log' = Append(log, Stmt("END", <<>>))
            /\ pc' = "disconnect"
       ELSE /\ pc' = "done"
            /\ UNCHANGED log

\* finally: disconnect() when there is an executor
Finally ==
  /\ pc = "finally"
  /\ UNCHANGED << libraryVars, databaseUrl, runNo, prompt, call, executor, client, abortRequested,
                  sigintListeners, opts, scan, fileNames, filesToExecute, i,
                  results, cbs, warnings, err, outcome >>
  /\ IF executor /\ client # "null"
       THEN /\ log' = Append(log, Stmt("END", <<>>))
            /\ pc' = "disconnect"
       ELSE /\ pc' = "done"
            /\ UNCHANGED log

\* client.end() settles
DisconnectDone(ok) ==
  /\ pc = "disconnect"
  /\ UNCHANGED << libraryVars, databaseUrl, runNo, prompt, call, executor, abortRequested,
                  sigintListeners, opts, scan, fileNames, filesToExecute, i,
                  results, cbs, warnings >>
  /\ log' = Settled(ok)
  /\ pc' = "done"
  /\ IF ok
       THEN /\ client' = "null"
            /\ UNCHANGED << err, outcome >>
       ELSE \* the exception of the finally block replaces the completion
            /\ err' = "end"
            /\ outcome' = Threw("end")
            /\ UNCHANGED client

\* the caller invokes run() again on the same SqlRunner
NextRun ==
  /\ pc = "done"
  /\ runNo < MaxRuns
  /\ runNo' = runNo + 1
  /\ pc' = "idle"
  /\ opts' = NoOpts
  /\ scan' = EmptyScan
  /\ fileNames' = <<>>
  /\ filesToExecute' = <<>>
  /\ i' = 0
  /\ results' = <<>>
  /\ log' = <<>>
  /\ cbs' = <<>>
  /\ warnings' = <<>>
  /\ prompt' = NoPrompt
  /\ err' = "none"
  /\ outcome' = Running
  /\ UNCHANGED << libraryVars, databaseUrl, executor, client, abortRequested,
                  sigintListeners, call >>

Next ==
  \/ \E listing \in Listings, dir \in Directories, onlyFiles \in OnlyChoices,
        skipFiles \in SkipChoices, dryRun \in BOOLEAN,
        skipConfirmation \in BOOLEAN, isTTY \in BOOLEAN :
       StartRun(listing, dir, onlyFiles, skipFiles, dryRun, skipConfirmation,
                isTTY)
  \/ \E event \in {"error", "SIGINT", "close", "line"}, answer \in Answers :
       PromptEvent(event, answer)
  \/ Confirm
  \/ \E ok \in BOOLEAN : ConnectDone(ok)
  \/ \E ok \in BOOLEAN : BeginDone(ok)
  \/ \E beforeThrows \in BOOLEAN, readFails \in BOOLEAN :
       LoopHead(beforeThrows, readFails)
  \/ \E ok \in BOOLEAN : SavepointDone(ok)
  \/ \E ok \in BOOLEAN : QueryDone(ok)
  \/ \E ok \in BOOLEAN, afterThrows \in BOOLEAN : ReleaseDone(ok, afterThrows)
  \/ \E ok \in BOOLEAN, afterThrows \in BOOLEAN : RollbackToDone(ok, afterThrows)
  \/ \E ok \in BOOLEAN : RollbackDone(ok)
  \/ \E ok \in BOOLEAN, completeThrows \in BOOLEAN : CommitDone(ok, completeThrows)
  \/ Sigint
  \/ \E errorThrows \in BOOLEAN : CatchBlock(errorThrows)
  \/ \E ok \in BOOLEAN : CatchRollbackDone(ok)
  \/ Finally
  \/ \E ok \in BOOLEAN : DisconnectDone(ok)
  \/ NextRun

Spec == Init /\ [][Next]_vars

\* ------------------------------------------------------------------------
\* SqlExecutor used directly: a caller awaits one method after the other
\* ------------------------------------------------------------------------

\* the state of a SqlRunner, which plays no part here
runnerVars == << libraryVars, databaseUrl, runNo, pc, executor, abortRequested,
                 sigintListeners, opts, scan, fileNames, filesToExecute, i,
                 results, cbs, warnings, prompt, err, outcome >>

\* a SqlExecutor as constructed, or after a connect() that succeeded
ExecInit ==
  /\ databaseUrl = [parses |-> TRUE, hostname |-> "h", username |-> "u"]
  /\ runNo = 1
  /\ pc = "idle"
  /\ executor = FALSE
  /\ client \in {"null", "open"}
  /\ abortRequested = FALSE
  /\ sigintListeners = 0
  /\ opts = NoOpts
  /\ scan = EmptyScan
  /\ fileNames = <<>>
  /\ filesToExecute = <<>>
  /\ i = 0
  /\ results = <<>>
  /\ log = IF client = "open"
             THEN <<[op |-> "CONNECT", arg |-> <<>>, ok |-> "ok"]>>
             ELSE <<>>
  /\ cbs = <<>>
  /\ warnings = <<>>
  /\ prompt = NoPrompt
  /\ call = NoCall
  /\ scanner = NoScan
  /\ handler = NoHandler
  /\ watcher = NoWatcher
  /\ merger = NoMerge
  /\ runs = NoRuns
  /\ err = "none"
  /\ outcome = Running

\* no call is in flight and the caller makes another one
CanCall == call.at = "none" /\ call.n < MaxCalls

\* the locals of a call that starts
Enter(method, name, filePath, index) ==
  [NoCall EXCEPT !.n = call.n + 1, !.method = method, !.name = name,
                 !.filePath = filePath, !.index = index,
                 !.names = call.names]

\* the call in flight settles with completion ret
Leave(ret) == [call EXCEPT !.at = "none", !.ret = ret]

\* ensureConnected
ensureConnected == client # "null"

\* connect(): a new Client is stored, then client.connect() is awaited
connect ==
  /\ CanCall
  /\ client' = "new"
  /\ log' = Append(log, Stmt("CONNECT", <<>>))
  /\ call' = [Enter("connect", <<>>, <<>>, 0) EXCEPT !.at = "connect"]
  /\ UNCHANGED runnerVars

connectSettled(ok) ==
  /\ call.at = "connect"
  /\ log' = Settled(ok)
  /\ client' = IF ok THEN "open" ELSE "failed"
  /\ call' = Leave(IF ok THEN "undefined" ELSE "rejected")
  /\ UNCHANGED runnerVars

\* disconnect(): client.end() is awaited when there is a client
disconnect ==
  /\ CanCall
  /\ UNCHANGED << client, runnerVars >>
  /\ IF client # "null"
       THEN /\ log' = Append(log, Stmt("END", <<>>))
            /\ call' = [Enter("disconnect", <<>>, <<>>, 0) EXCEPT !.at = "end"]
       ELSE /\ call' = [Enter("disconnect", <<>>, <<>>, 0)
                          EXCEPT !.ret = "undefined"]
            /\ UNCHANGED log

\* a disconnect() that keeps the client after closing it
disconnectSettledKeepsClient(ok) ==
  /\ call.at = "end"
  /\ log' = Settled(ok)
  /\ call' = Leave(IF ok THEN "undefined" ELSE "rejected")
  /\ UNCHANGED << client, runnerVars >>

disconnectSettled(ok) ==
  /\ call.at = "end"
  /\ log' = Settled(ok)
  /\ client' = IF ok THEN "null" ELSE client
  /\ call' = Leave(IF ok THEN "undefined" ELSE "rejected")
  /\ UNCHANGED runnerVars

\* a method that issues its statement without ensureConnected
IssueUnchecked(method, name, op, arg) ==
  /\ CanCall
  /\ UNCHANGED << client, runnerVars >>
  /\ call' = [Enter(method, name, <<>>, 0) EXCEPT !.at = "stmt"]
  /\ log' = Append(log, Stmt(op, arg))

\* the methods of one statement: ensureConnected, then the statement
Issue(method, name, op, arg) ==
  /\ CanCall
  /\ UNCHANGED << client, runnerVars >>
  /\ IF ~ensureConnected
       THEN /\ call' = [Enter(method, name, <<>>, 0)
                          EXCEPT !.ret = "NotConnected"]
            /\ UNCHANGED log
       ELSE /\ call' = [Enter(method, name, <<>>, 0) EXCEPT !.at = "stmt"]
            /\ log' = Append(log, Stmt(op, arg))

beginTransaction == Issue("beginTransaction", <<>>, "BEGIN", <<>>)

commit == Issue("commit", <<>>, "COMMIT", <<>>)

rollback == Issue("rollback", <<>>, "ROLLBACK", <<>>)

createSavepoint(name) ==
  Issue("createSavepoint", name, "SAVEPOINT", quoteSqlIdentifier(name))

rollbackToSavepoint(name) ==
  Issue("rollbackToSavepoint", name, "ROLLBACK TO", quoteSqlIdentifier(name))

releaseSavepoint(name) ==
  Issue("releaseSavepoint", name, "RELEASE", quoteSqlIdentifier(name))

\* a rollbackToSavepoint that lets the failure of its statement through
statementSettledPropagates(ok) ==
  /\ call.at = "stmt"
  /\ log' = Settled(ok)
  /\ call' = Leave(IF ~ok THEN "rejected"
                   ELSE IF call.method = "rollbackToSavepoint" THEN "true"
                   ELSE "undefined")
  /\ UNCHANGED << client, runnerVars >>

\* the statement settles: rollbackToSavepoint turns it into a boolean, the
\* other methods let a failure through
statementSettled(ok) ==
  /\ call.at = "stmt"
  /\ log' = Settled(ok)
  /\ call' = Leave(IF call.method = "rollbackToSavepoint"
                     THEN (IF ok THEN "true" ELSE "false")
                   ELSE IF ok THEN "undefined"
                   ELSE "rejected")
  /\ UNCHANGED << client, runnerVars >>

\* executeFile up to its first await
executeFile(filePath, index, readFails) ==
  /\ CanCall
  /\ UNCHANGED << client, runnerVars >>
  /\ IF ~ensureConnected
       THEN /\ call' = [Enter("executeFile", <<>>, filePath, index)
                          EXCEPT !.ret = "NotConnected"]
            /\ UNCHANGED log
       ELSE
         LET fileName == Basename(filePath)
             savepointName == createSavepointName(fileName, index)
             entered == [Enter("executeFile", savepointName, filePath, index)
                           EXCEPT !.names = Append(@, [fileName |-> fileName,
                                                       index |-> index,
                                                       savepointName |->
                                                         savepointName])]
         IN  IF readFails
               THEN \* readSqlFile throws before the try
                    /\ call' = [entered EXCEPT !.ret = "read"]
                    /\ UNCHANGED log
               ELSE /\ call' = [entered EXCEPT !.at = "savepoint",
                                               !.sql = SqlContent(filePath)]
                    /\ log' = Append(log, Stmt("SAVEPOINT",
                                               quoteSqlIdentifier(savepointName)))

\* the FileExecutionResult of the call in flight
ExecResult(success, sqlError, rollbackSuccess) ==
  [ fileName |-> Basename(call.filePath),
    filePath |-> call.filePath,
    success |-> success,
    savepointName |-> call.name,
    error |-> sqlError,
    rollbackSuccess |-> rollbackSuccess ]

\* the catch block of executeFile: format the error, print the pointer to
\* the position, attempt ROLLBACK TO SAVEPOINT
executeFileCatch(error) ==
  LET sqlError == formatError(error, Basename(call.filePath))
  IN  IF PointerThrows(sqlError, call.sql)
        THEN /\ log' = Settled(FALSE)
             /\ call' = [Leave("RangeError") EXCEPT !.sqlError = sqlError]
        ELSE /\ log' = Append(Settled(FALSE),
                              Stmt("ROLLBACK TO", quoteSqlIdentifier(call.name)))
             /\ call' = [call EXCEPT !.at = "rollback_to",
                                     !.sqlError = sqlError]

executeFileSavepointSettled(ok, error) ==
  /\ call.at = "savepoint"
  /\ UNCHANGED << client, runnerVars >>
  /\ IF ok
       THEN /\ log' = Append(Settled(TRUE), Stmt("QUERY", call.filePath))
            /\ call' = [call EXCEPT !.at = "query"]
       ELSE executeFileCatch(error)

\* an executeFile without the try around the batch
executeFileQuerySettledNoCatch(ok, error) ==
  /\ call.at = "query"
  /\ UNCHANGED << client, runnerVars >>
  /\ IF ok
       THEN /\ log' = Append(Settled(TRUE),
                             Stmt("RELEASE", quoteSqlIdentifier(call.name)))
            /\ call' = [call EXCEPT !.at = "release"]
       ELSE /\ log' = Settled(FALSE)
            /\ call' = Leave("rejected")

executeFileQuerySettled(ok, error) ==
  /\ call.at = "query"
  /\ UNCHANGED << client, runnerVars >>
  /\ IF ok
       THEN /\ log' = Append(Settled(TRUE),
                             Stmt("RELEASE", quoteSqlIdentifier(call.name)))
            /\ call' = [call EXCEPT !.at = "release"]
       ELSE executeFileCatch(error)

\* an executeFile that returns the failing result of a RELEASE without
\* rolling back
executeFileReleaseSettledNoRollback(ok, error) ==
  /\ call.at = "release"
  /\ UNCHANGED << client, runnerVars >>
  /\ log' = Settled(ok)
  /\ call' = [Leave("result") EXCEPT
                !.result =
                  IF ok THEN ExecResult(TRUE, NoSqlError, "undefined")
                  ELSE ExecResult(FALSE,
                                  formatError(error, Basename(call.filePath)),
                                  "undefined")]

executeFileReleaseSettled(ok, error) ==
  /\ call.at = "release"
  /\ UNCHANGED << client, runnerVars >>
  /\ IF ok
       THEN /\ log' = Settled(TRUE)
            /\ call' = [Leave("result") EXCEPT
                          !.result = ExecResult(TRUE, NoSqlError, "undefined")]
       ELSE executeFileCatch(error)

\* rollbackToSavepoint inside executeFile settles: the failing result
executeFileRollbackSettled(ok) ==
  /\ call.at = "rollback_to"
  /\ UNCHANGED << client, runnerVars >>
  /\ log' = Settled(ok)
  /\ call' = [Leave("result") EXCEPT
                !.result = ExecResult(FALSE, call.sqlError, ok)]

ExecNext ==
  \/ connect
  \/ \E ok \in BOOLEAN : connectSettled(ok)
  \/ disconnect
  \/ \E ok \in BOOLEAN : disconnectSettled(ok)
  \/ beginTransaction
  \/ commit
  \/ rollback
  \/ \E name \in SavepointArgs : createSavepoint(name)
  \/ \E name \in SavepointArgs : rollbackToSavepoint(name)
  \/ \E name \in SavepointArgs : releaseSavepoint(name)
  \/ \E ok \in BOOLEAN : statementSettled(ok)
  \/ \E filePath \in ExecPaths, index \in ExecIndices, readFails \in BOOLEAN :
       executeFile(filePath, index, readFails)
  \/ \E ok \in BOOLEAN, error \in ThrownValues :
       executeFileSavepointSettled(ok, error)
  \/ \E ok \in BOOLEAN, error \in ThrownValues :
       executeFileQuerySettled(ok, error)
  \/ \E ok \in BOOLEAN, error \in ThrownValues :
       executeFileReleaseSettled(ok, error)
  \/ \E ok \in BOOLEAN : executeFileRollbackSettled(ok)

ExecSpec == ExecInit /\ [][ExecNext]_vars

\* ------------------------------------------------------------------------
\* The parts used on their own: no SqlRunner and no SqlExecutor takes part
\* ------------------------------------------------------------------------

\* the state of a SqlRunner and of its executor, which play no part here
parkedVars == << databaseUrl, runNo, pc, executor, client, abortRequested,
                sigintListeners, opts, scan, fileNames, filesToExecute, i,
                results, log, cbs, warnings, prompt, call, err, outcome >>

Parked ==
  /\ databaseUrl = [parses |-> TRUE, hostname |-> "h", username |-> "u"]
  /\ runNo = 1
  /\ pc = "idle"
  /\ executor = FALSE
  /\ client = "null"
  /\ abortRequested = FALSE
  /\ sigintListeners = 0
  /\ opts = NoOpts
  /\ scan = EmptyScan
  /\ fileNames = <<>>
  /\ filesToExecute = <<>>
  /\ i = 0
  /\ results = <<>>
  /\ log = <<>>
  /\ cbs = <<>>
  /\ warnings = <<>>
  /\ prompt = NoPrompt
  /\ call = NoCall
  /\ err = "none"
  /\ outcome = Running

\* ------------------------------------------------------------------------
\* scanSqlFiles called directly on a directory
\* ------------------------------------------------------------------------

ScanInit ==
  /\ Parked
  /\ runs = NoRuns
  /\ scanner \in { [NoScan EXCEPT !.directory = dir, !.allEntries = l] :
                     dir \in Directories, l \in ScanListings }
  /\ handler = NoHandler
  /\ watcher = NoWatcher
  /\ merger = NoMerge

\* scanSqlFiles(directory, options) with the default patterns: it throws
\* when the directory fails the validation and returns the scan otherwise
scanDirectory ==
  /\ ~scanner.called
  /\ LET error == validateDirectory(scanner.directory)
     IN  scanner' = [scanner EXCEPT
                       !.called = TRUE,
                       !.threw = error,
                       !.result = IF error = "none"
                                    THEN scanSqlFiles(scanner.allEntries)
                                    ELSE EmptyScan]
  /\ UNCHANGED << parkedVars, runs, handler, watcher, merger >>

ScanNext == scanDirectory

ScanSpec == ScanInit /\ [][ScanNext]_vars

\* ------------------------------------------------------------------------
\* The classifier of connection errors: detectors, registry and handler
\* ------------------------------------------------------------------------

\* number of detectors a caller registers with register()
MaxRegistered == 2

\* String.prototype.toLowerCase
toLowerCase(s) ==
  [k \in DOMAIN s |-> IF s[k] >= 65 /\ s[k] <= 90 THEN s[k] + 32 ELSE s[k]]

\* the texts the detectors search for, and fragments of their help
Str ==
  [
    \* "ENOTFOUND"
    ENOTFOUND |-> <<69, 78, 79, 84, 70, 79, 85, 78, 68>>,
    \* "getaddrinfo ENOTFOUND"
    Getaddrinfo |-> <<103, 101, 116, 97, 100, 100, 114, 105, 110, 102, 111,
        32, 69, 78, 79, 84, 70, 79, 85, 78, 68>>,
    \* "db."
    DbDot |-> <<100, 98, 46>>,
    \* ".supabase.co"
    SupabaseCo |-> <<46, 115, 117, 112, 97, 98, 97, 115, 101, 46, 99, 111>>,
    \* "ECONNREFUSED"
    ECONNREFUSED |-> <<69, 67, 79, 78, 78, 82, 69, 70, 85, 83, 69, 68>>,
    \* "ETIMEDOUT"
    ETIMEDOUT |-> <<69, 84, 73, 77, 69, 68, 79, 85, 84>>,
    \* "timeout"
    Timeout |-> <<116, 105, 109, 101, 111, 117, 116>>,
    \* "timed out"
    TimedOut |-> <<116, 105, 109, 101, 100, 32, 111, 117, 116>>,
    \* "password authentication failed"
    PasswordAuthFailed |-> <<112, 97, 115, 115, 119, 111, 114, 100, 32, 97,
        117, 116, 104, 101, 110, 116, 105, 99, 97, 116, 105, 111, 110, 32,
        102, 97, 105, 108, 101, 100>>,
    \* "authentication failed"
    AuthFailed |-> <<97, 117, 116, 104, 101, 110, 116, 105, 99, 97, 116,
        105, 111, 110, 32, 102, 97, 105, 108, 101, 100>>,
    \* "invalid password"
    InvalidPassword |-> <<105, 110, 118, 97, 108, 105, 100, 32, 112, 97,
        115, 115, 119, 111, 114, 100>>,
    \* "no pg_hba.conf entry"
    NoPgHba |-> <<110, 111, 32, 112, 103, 95, 104, 98, 97, 46, 99, 111,
        110, 102, 32, 101, 110, 116, 114, 121>>,
    \* "role"
    Role |-> <<114, 111, 108, 101>>,
    \* "does not exist"
    DoesNotExist |-> <<100, 111, 101, 115, 32, 110, 111, 116, 32, 101, 120,
        105, 115, 116>>,
    \* "database"
    Database |-> <<100, 97, 116, 97, 98, 97, 115, 101>>,
    \* "not found"
    NotFound |-> <<110, 111, 116, 32, 102, 111, 117, 110, 100>>,
    \* "database ""
    DatabaseQuote |-> <<100, 97, 116, 97, 98, 97, 115, 101, 32, 34>>,
    \* "" does not exist"
    QuoteDoesNotExist |-> <<34, 32, 100, 111, 101, 115, 32, 110, 111, 116,
        32, 101, 120, 105, 115, 116>>,
    \* "too many connections"
    TooManyConnections |-> <<116, 111, 111, 32, 109, 97, 110, 121, 32, 99,
        111, 110, 110, 101, 99, 116, 105, 111, 110, 115>>,
    \* "connection limit"
    ConnectionLimit |-> <<99, 111, 110, 110, 101, 99, 116, 105, 111, 110,
        32, 108, 105, 109, 105, 116>>,
    \* "max_connections"
    MaxConnections |-> <<109, 97, 120, 95, 99, 111, 110, 110, 101, 99, 116,
        105, 111, 110, 115>>,
    \* "remaining connection slots"
    RemainingSlots |-> <<114, 101, 109, 97, 105, 110, 105, 110, 103, 32,
        99, 111, 110, 110, 101, 99, 116, 105, 111, 110, 32, 115, 108, 111,
        116, 115>>,
    \* "ssl"
    Ssl |-> <<115, 115, 108>>,
    \* "tls"
    Tls |-> <<116, 108, 115>>,
    \* "certificate"
    Certificate |-> <<99, 101, 114, 116, 105, 102, 105, 99, 97, 116, 101>>,
    \* "cert"
    Cert |-> <<99, 101, 114, 116>>,
    \* "handshake"
    Handshake |-> <<104, 97, 110, 100, 115, 104, 97, 107, 101>>,
    \* "self signed"
    SelfSigned |-> <<115, 101, 108, 102, 32, 115, 105, 103, 110, 101, 100>>,
    \* "unable to verify"
    UnableToVerify |-> <<117, 110, 97, 98, 108, 101, 32, 116, 111, 32, 118,
        101, 114, 105, 102, 121>>,
    \* "prepared statement"
    PreparedStatement |-> <<112, 114, 101, 112, 97, 114, 101, 100, 32, 115,
        116, 97, 116, 101, 109, 101, 110, 116>>,
    \* "invalid url"
    InvalidUrl |-> <<105, 110, 118, 97, 108, 105, 100, 32, 117, 114, 108>>,
    \* "invalid database url"
    InvalidDatabaseUrl |-> <<105, 110, 118, 97, 108, 105, 100, 32, 100, 97,
        116, 97, 98, 97, 115, 101, 32, 117, 114, 108>>,
    \* "malformed url"
    MalformedUrl |-> <<109, 97, 108, 102, 111, 114, 109, 101, 100, 32, 117,
        114, 108>>,
    \* "url parse"
    UrlParse |-> <<117, 114, 108, 32, 112, 97, 114, 115, 101>>,
    \* "invalid protocol"
    InvalidProtocol |-> <<105, 110, 118, 97, 108, 105, 100, 32, 112, 114,
        111, 116, 111, 99, 111, 108>>,
    \* "url"
    Url |-> <<117, 114, 108>>,
    \* "Error: "
    ErrorColon |-> <<69, 114, 114, 111, 114, 58, 32>>,
    \* "TypeError: "
    TypeErrorColon |-> <<84, 121, 112, 101, 69, 114, 114, 111, 114, 58, 32>>,
    \* "unknown host"
    UnknownHost |-> <<117, 110, 107, 110, 111, 119, 110, 32, 104, 111, 115,
        116>>,
    \* "specified database"
    SpecifiedDatabase |-> <<115, 112, 101, 99, 105, 102, 105, 101, 100, 32,
        100, 97, 116, 97, 98, 97, 115, 101>>,
    \* "Cannot resolve hostname: "
    CannotResolve |-> <<67, 97, 110, 110, 111, 116, 32, 114, 101, 115, 111,
        108, 118, 101, 32, 104, 111, 115, 116, 110, 97, 109, 101, 58, 32>>,
    \* "The database ""
    TheDatabase |-> <<84, 104, 101, 32, 100, 97, 116, 97, 98, 97, 115, 101,
        32, 34>>,
    \* "" does not exist on the server."
    NotOnServer |-> <<34, 32, 100, 111, 101, 115, 32, 110, 111, 116, 32,
        101, 120, 105, 115, 116, 32, 111, 110, 32, 116, 104, 101, 32, 115,
        101, 114, 118, 101, 114, 46>> ]

\* the first sentence of the explanation of each detector with a fixed one
Expl ==
  [
    \* "The connection was refused."
    Refused |-> <<84, 104, 101, 32, 99, 111, 110, 110, 101, 99, 116, 105,
        111, 110, 32, 119, 97, 115, 32, 114, 101, 102, 117, 115, 101, 100,
        46>>,
    \* "The connection to the database timed out."
    Timeout |-> <<84, 104, 101, 32, 99, 111, 110, 110, 101, 99, 116, 105,
        111, 110, 32, 116, 111, 32, 116, 104, 101, 32, 100, 97, 116, 97,
        98, 97, 115, 101, 32, 116, 105, 109, 101, 100, 32, 111, 117, 116,
        46>>,
    \* "The database rejected the username/password combination."
    Auth |-> <<84, 104, 101, 32, 100, 97, 116, 97, 98, 97, 115, 101, 32,
        114, 101, 106, 101, 99, 116, 101, 100, 32, 116, 104, 101, 32, 117,
        115, 101, 114, 110, 97, 109, 101, 47, 112, 97, 115, 115, 119, 111,
        114, 100, 32, 99, 111, 109, 98, 105, 110, 97, 116, 105, 111, 110,
        46>>,
    \* "The database has reached its maximum connection limit."
    TooMany |-> <<84, 104, 101, 32, 100, 97, 116, 97, 98, 97, 115, 101, 32,
        104, 97, 115, 32, 114, 101, 97, 99, 104, 101, 100, 32, 105, 116,
        115, 32, 109, 97, 120, 105, 109, 117, 109, 32, 99, 111, 110, 110,
        101, 99, 116, 105, 111, 110, 32, 108, 105, 109, 105, 116, 46>>,
    \* "There was a problem establishing a secure SSL connection."
    Ssl |-> <<84, 104, 101, 114, 101, 32, 119, 97, 115, 32, 97, 32, 112,
        114, 111, 98, 108, 101, 109, 32, 101, 115, 116, 97, 98, 108, 105,
        115, 104, 105, 110, 103, 32, 97, 32, 115, 101, 99, 117, 114, 101,
        32, 83, 83, 76, 32, 99, 111, 110, 110, 101, 99, 116, 105, 111, 110,
        46>>,
    \* "Prepared statements are not supported."
    Prepared |-> <<80, 114, 101, 112, 97, 114, 101, 100, 32, 115, 116, 97,
        116, 101, 109, 101, 110, 116, 115, 32, 97, 114, 101, 32, 110, 111,
        116, 32, 115, 117, 112, 112, 111, 114, 116, 101, 100, 46>>,
    \* "The DATABASE_URL format is invalid or malformed."
    InvalidUrl |-> <<84, 104, 101, 32, 68, 65, 84, 65, 66, 65, 83, 69, 95,
        85, 82, 76, 32, 102, 111, 114, 109, 97, 116, 32, 105, 115, 32, 105,
        110, 118, 97, 108, 105, 100, 32, 111, 114, 32, 109, 97, 108, 102,
        111, 114, 109, 101, 100, 46>> ]

\* messages of connection errors
Msg ==
  [
    \* "getaddrinfo ENOTFOUND db.p.supabase.co"
    DnsDirect |-> <<103, 101, 116, 97, 100, 100, 114, 105, 110, 102, 111,
        32, 69, 78, 79, 84, 70, 79, 85, 78, 68, 32, 100, 98, 46, 112, 46,
        115, 117, 112, 97, 98, 97, 115, 101, 46, 99, 111>>,
    \* "getaddrinfo ENOTFOUND h.example.com"
    DnsOther |-> <<103, 101, 116, 97, 100, 100, 114, 105, 110, 102, 111,
        32, 69, 78, 79, 84, 70, 79, 85, 78, 68, 32, 104, 46, 101, 120, 97,
        109, 112, 108, 101, 46, 99, 111, 109>>,
    \* "lookup failed"
    Lookup |-> <<108, 111, 111, 107, 117, 112, 32, 102, 97, 105, 108, 101,
        100>>,
    \* "ENOTFOUND: ssl lookup timed out"
    DnsTimedOut |-> <<69, 78, 79, 84, 70, 79, 85, 78, 68, 58, 32, 115, 115,
        108, 32, 108, 111, 111, 107, 117, 112, 32, 116, 105, 109, 101, 100,
        32, 111, 117, 116>>,
    \* "connect ECONNREFUSED 127.0.0.1:5432"
    Refused |-> <<99, 111, 110, 110, 101, 99, 116, 32, 69, 67, 79, 78, 78,
        82, 69, 70, 85, 83, 69, 68, 32, 49, 50, 55, 46, 48, 46, 48, 46, 49,
        58, 53, 52, 51, 50>>,
    \* "connect ETIMEDOUT"
    TimedOut |-> <<99, 111, 110, 110, 101, 99, 116, 32, 69, 84, 73, 77, 69,
        68, 79, 85, 84>>,
    \* "password authentication failed for user "postgres""
    Auth |-> <<112, 97, 115, 115, 119, 111, 114, 100, 32, 97, 117, 116,
        104, 101, 110, 116, 105, 99, 97, 116, 105, 111, 110, 32, 102, 97,
        105, 108, 101, 100, 32, 102, 111, 114, 32, 117, 115, 101, 114, 32,
        34, 112, 111, 115, 116, 103, 114, 101, 115, 34>>,
    \* "SSL connection required"
    Ssl |-> <<83, 83, 76, 32, 99, 111, 110, 110, 101, 99, 116, 105, 111,
        110, 32, 114, 101, 113, 117, 105, 114, 101, 100>>,
    \* "TLS handshake timeout"
    SslTimeout |-> <<84, 76, 83, 32, 104, 97, 110, 100, 115, 104, 97, 107,
        101, 32, 116, 105, 109, 101, 111, 117, 116>>,
    \* "prepared statement "s1" already exists"
    Prepared |-> <<112, 114, 101, 112, 97, 114, 101, 100, 32, 115, 116, 97,
        116, 101, 109, 101, 110, 116, 32, 34, 115, 49, 34, 32, 97, 108,
        114, 101, 97, 100, 121, 32, 101, 120, 105, 115, 116, 115>>,
    \* "database "mydb" does not exist"
    Database |-> <<100, 97, 116, 97, 98, 97, 115, 101, 32, 34, 109, 121,
        100, 98, 34, 32, 100, 111, 101, 115, 32, 110, 111, 116, 32, 101,
        120, 105, 115, 116>>,
    \* "too many connections for role"
    TooMany |-> <<116, 111, 111, 32, 109, 97, 110, 121, 32, 99, 111, 110,
        110, 101, 99, 116, 105, 111, 110, 115, 32, 102, 111, 114, 32, 114,
        111, 108, 101>>,
    \* "Some completely unknown error"
    Unknown |-> <<83, 111, 109, 101, 32, 99, 111, 109, 112, 108, 101, 116,
        101, 108, 121, 32, 117, 110, 107, 110, 111, 119, 110, 32, 101, 114,
        114, 111, 114>>,
    \* "Invalid URL"
    InvalidUrl |-> <<73, 110, 118, 97, 108, 105, 100, 32, 85, 82, 76>> ]

\* connection strings
Urls ==
  [
    \* "postgres://u:p@db.p.supabase.co:5432/postgres"
    Direct |-> <<112, 111, 115, 116, 103, 114, 101, 115, 58, 47, 47, 117,
        58, 112, 64, 100, 98, 46, 112, 46, 115, 117, 112, 97, 98, 97, 115,
        101, 46, 99, 111, 58, 53, 52, 51, 50, 47, 112, 111, 115, 116, 103,
        114, 101, 115>>,
    \* "postgres://u.p:p@aws.pooler.supabase.com:6543/postgres"
    Pooler |-> <<112, 111, 115, 116, 103, 114, 101, 115, 58, 47, 47, 117,
        46, 112, 58, 112, 64, 97, 119, 115, 46, 112, 111, 111, 108, 101,
        114, 46, 115, 117, 112, 97, 98, 97, 115, 101, 46, 99, 111, 109, 58,
        54, 53, 52, 51, 47, 112, 111, 115, 116, 103, 114, 101, 115>>,
    \* "postgres://u:p@db.example.com/postgres"
    DbOnly |-> <<112, 111, 115, 116, 103, 114, 101, 115, 58, 47, 47, 117,
        58, 112, 64, 100, 98, 46, 101, 120, 97, 109, 112, 108, 101, 46, 99,
        111, 109, 47, 112, 111, 115, 116, 103, 114, 101, 115>>,
    \* "postgres://u:p@api.supabase.co/postgres"
    SupabaseOnly |-> <<112, 111, 115, 116, 103, 114, 101, 115, 58, 47, 47,
        117, 58, 112, 64, 97, 112, 105, 46, 115, 117, 112, 97, 98, 97, 115,
        101, 46, 99, 111, 47, 112, 111, 115, 116, 103, 114, 101, 115>> ]

\* the errors the classifier is asked about
ConnectionErrors ==
  { AnError("ENOTFOUND", Msg.DnsDirect),
    AnError("ENOTFOUND", Msg.DnsOther),
    AnError("ENOTFOUND", Msg.Lookup),
    AnError("", Msg.DnsOther),
    NotAnError(Msg.DnsOther),
    NotAnError(Msg.Lookup),
    AnError("ENOTFOUND", Msg.DnsTimedOut),
    AnError("ECONNREFUSED", Msg.Refused),
    AnError("ETIMEDOUT", Msg.TimedOut),
    AnError("", Msg.Auth),
    AnError("", Msg.Ssl),
    AnError("", Msg.SslTimeout),
    AnError("", Msg.Prepared),
    AnError("", Msg.Database),
    AnError("", Msg.TooMany),
    AnError("", Msg.Unknown),
    ATypeError(Msg.InvalidUrl) }

\* the contexts the classifier is asked about
ConnectionContexts ==
  { NoUrl, Url(<<>>), Url(Urls.Direct), Url(Urls.Pooler), Url(Urls.DbOnly),
    Url(Urls.SupabaseOnly) }

\* BaseErrorDetector: the message and the code of the thrown value;
\* String(error) of a value that is not an Error is its text
getErrorMessage(error) == error.message

getErrorCode(error) == IF error.isError THEN error.code ELSE ""

\* BaseErrorDetector.isDirectConnection; an empty URL is falsy
isDirectConnection(context) ==
  IF ~context.defined \/ context.databaseUrl = <<>> THEN FALSE
  ELSE /\ Contains(context.databaseUrl, Str.DbDot)
       /\ Contains(context.databaseUrl, Str.SupabaseCo)

\* /\s/ on the characters that occur: space, tab, line feed, carriage return
IsWhitespace(ch) == ch \in {32, 9, 10, 13}

\* the longest run of non-whitespace characters of s that starts at k
RECURSIVE NonSpaceRun(_, _)
NonSpaceRun(s, k) ==
  IF k > Len(s) \/ IsWhitespace(s[k]) THEN <<>>
  ELSE <<s[k]>> \o NonSpaceRun(s, k + 1)

\* the first position from k on that holds no whitespace (Len + 1 if none)
RECURSIVE SkipSpace(_, _)
SkipSpace(s, k) ==
  IF k > Len(s) \/ ~IsWhitespace(s[k]) THEN k ELSE SkipSpace(s, k + 1)

\* BaseErrorDetector.extractHostnameFromError, /ENOTFOUND\s+(\S+)/: the
\* leftmost ENOTFOUND followed by whitespace and a word; <<>> for undefined
extractHostnameFromError(errorMessage) ==
  LET n == Len(Str.ENOTFOUND)
      Matches(k) ==
        /\ k + n <= Len(errorMessage)
        /\ SubSeq(errorMessage, k, k + n - 1) = Str.ENOTFOUND
        /\ IsWhitespace(errorMessage[k + n])
        /\ NonSpaceRun(errorMessage, SkipSpace(errorMessage, k + n)) # <<>>
      starts == { k \in DOMAIN errorMessage : Matches(k) }
  IN  IF starts = {} THEN <<>>
      ELSE LET k == CHOOSE a \in starts : \A b \in starts : a <= b
           IN  NonSpaceRun(errorMessage, SkipSpace(errorMessage, k + n))

\* BaseErrorDetector.createErrorHelp: isKnownError is true unless given
createErrorHelp(title, explanation, originalMessage) ==
  [ isKnownError |-> TRUE, title |-> title, explanation |-> explanation,
    originalMessage |-> originalMessage ]

\* DnsDirectConnectionDetector
DnsDirectConnectionCanHandle(error, context) ==
  LET isDnsError ==
        \/ getErrorCode(error) = "ENOTFOUND"
        \/ Contains(getErrorMessage(error), Str.Getaddrinfo)
  IN  isDnsError /\ isDirectConnection(context)

\* DnsGenericDetector
DnsGenericCanHandle(error, context) ==
  \/ getErrorCode(error) = "ENOTFOUND"
  \/ Contains(getErrorMessage(error), Str.Getaddrinfo)

\* ConnectionRefusedDetector (as the tests and the specification have it)
ConnectionRefusedCanHandle(error, context) ==
  \/ getErrorCode(error) = "ECONNREFUSED"
  \/ Contains(getErrorMessage(error), Str.ECONNREFUSED)

\* ConnectionTimeoutDetector
ConnectionTimeoutCanHandle(error, context) ==
  LET errorMessage == getErrorMessage(error)
      errorCode == getErrorCode(error)
  IN  \/ errorCode = "ETIMEDOUT"
      \/ errorCode = "ESOCKETTIMEDOUT"
      \/ Contains(errorMessage, Str.ETIMEDOUT)
      \/ Contains(errorMessage, Str.Timeout)
      \/ Contains(errorMessage, Str.TimedOut)

\* AuthenticationDetector
AuthenticationCanHandle(error, context) ==
  LET errorMessage == toLowerCase(getErrorMessage(error))
  IN  \/ Contains(errorMessage, Str.PasswordAuthFailed)
      \/ Contains(errorMessage, Str.AuthFailed)
      \/ Contains(errorMessage, Str.InvalidPassword)
      \/ Contains(errorMessage, Str.NoPgHba)
      \/ /\ Contains(errorMessage, Str.Role)
         /\ Contains(errorMessage, Str.DoesNotExist)

\* DatabaseNotFoundDetector
DatabaseNotFoundCanHandle(error, context) ==
  LET errorMessage == toLowerCase(getErrorMessage(error))
  IN  /\ Contains(errorMessage, Str.Database)
      /\ \/ Contains(errorMessage, Str.DoesNotExist)
         \/ Contains(errorMessage, Str.NotFound)

\* the text up to the next double quote from k on
RECURSIVE UpToQuote(_, _)
UpToQuote(s, k) ==
  IF k > Len(s) \/ s[k] = 34 THEN <<>>
  ELSE <<s[k]>> \o UpToQuote(s, k + 1)

\* errorMessage.match(/database "([^"]+)" does not exist/i): the group of
\* the leftmost match; <<>> when there is none
extractDatabaseName(errorMessage) ==
  LET lower == toLowerCase(errorMessage)
      n == Len(Str.DatabaseQuote)
      m == Len(Str.QuoteDoesNotExist)
      Group(k) == UpToQuote(errorMessage, k + n)
      Matches(k) ==
        /\ k + n - 1 <= Len(lower)
        /\ SubSeq(lower, k, k + n - 1) = Str.DatabaseQuote
        /\ Group(k) # <<>>
        /\ LET q == k + n + Len(Group(k))
           IN  /\ q + m - 1 <= Len(lower)
               /\ SubSeq(lower, q, q + m - 1) = Str.QuoteDoesNotExist
      starts == { k \in DOMAIN errorMessage : Matches(k) }
  IN  IF starts = {} THEN <<>>
      ELSE Group(CHOOSE a \in starts : \A b \in starts : a <= b)

\* TooManyConnectionsDetector
TooManyConnectionsCanHandle(error, context) ==
  LET errorMessage == toLowerCase(getErrorMessage(error))
  IN  \/ Contains(errorMessage, Str.TooManyConnections)
      \/ Contains(errorMessage, Str.ConnectionLimit)
      \/ Contains(errorMessage, Str.MaxConnections)
      \/ Contains(errorMessage, Str.RemainingSlots)

\* SslDetector
SslCanHandle(error, context) ==
  LET errorMessage == toLowerCase(getErrorMessage(error))
  IN  \/ Contains(errorMessage, Str.Ssl)
      \/ Contains(errorMessage, Str.Tls)
      \/ Contains(errorMessage, Str.Certificate)
      \/ Contains(errorMessage, Str.Cert)
      \/ Contains(errorMessage, Str.Handshake)
      \/ Contains(errorMessage, Str.SelfSigned)
      \/ Contains(errorMessage, Str.UnableToVerify)

\* PreparedStatementDetector (as the tests and the specification have it)
PreparedStatementCanHandle(error, context) ==
  Contains(toLowerCase(getErrorMessage(error)), Str.PreparedStatement)

\* InvalidUrlDetector
InvalidUrlCanHandle(error, context) ==
  LET errorMessage == toLowerCase(getErrorMessage(error))
  IN  \/ Contains(errorMessage, Str.InvalidUrl)
      \/ Contains(errorMessage, Str.InvalidDatabaseUrl)
      \/ Contains(errorMessage, Str.MalformedUrl)
      \/ Contains(errorMessage, Str.UrlParse)
      \/ Contains(errorMessage, Str.InvalidProtocol)
      \/ (error.isTypeError /\ Contains(errorMessage, Str.Url))

\* detector.canHandle(error, context) of the detector with this name
canHandle(detector, error, context) ==
  CASE detector = "dns-direct-connection" ->
         DnsDirectConnectionCanHandle(error, context)
    [] detector = "dns-generic" -> DnsGenericCanHandle(error, context)
    [] detector = "connection-refused" ->
         ConnectionRefusedCanHandle(error, context)
    [] detector = "connection-timeout" ->
         ConnectionTimeoutCanHandle(error, context)
    [] detector = "authentication" -> AuthenticationCanHandle(error, context)
    [] detector = "database-not-found" ->
         DatabaseNotFoundCanHandle(error, context)
    [] detector = "too-many-connections" ->
         TooManyConnectionsCanHandle(error, context)
    [] detector = "ssl" -> SslCanHandle(error, context)
    [] detector = "prepared-statement" ->
         PreparedStatementCanHandle(error, context)
    [] detector = "invalid-url" -> InvalidUrlCanHandle(error, context)

\* detector.getHelp(error, context) of the detector with this name: the
\* title, the first sentence of the explanation (with the host name or the
\* database name put in) and the original message; context.hostname is
\* not set by getConnectionErrorHelp.  Of the connection-refused and the
\* prepared-statement detector only the title is known, from the tests.
detectorGetHelp(detector, error, context) ==
  LET errorMessage == getErrorMessage(error)
      extracted == extractHostnameFromError(errorMessage)
      hostname == IF extracted # <<>> THEN extracted ELSE Str.UnknownHost
      dbMatch == extractDatabaseName(errorMessage)
      databaseName == IF dbMatch # <<>> THEN dbMatch
                                       ELSE Str.SpecifiedDatabase
  IN  CASE detector = "dns-direct-connection" ->
             createErrorHelp(
               "DNS Resolution Failed - Direct Connection (IPv6 Only)",
               Str.CannotResolve \o hostname, errorMessage)
        [] detector = "dns-generic" ->
             createErrorHelp("DNS Resolution Failed",
                             Str.CannotResolve \o hostname, errorMessage)
        [] detector = "connection-refused" ->
             createErrorHelp("Connection Refused", Expl.Refused,
                             errorMessage)
        [] detector = "connection-timeout" ->
             createErrorHelp("Connection Timeout", Expl.Timeout,
                             errorMessage)
        [] detector = "authentication" ->
             createErrorHelp("Authentication Failed", Expl.Auth,
                             errorMessage)
        [] detector = "database-not-found" ->
             createErrorHelp(
               "Database Not Found",
               Str.TheDatabase \o databaseName \o Str.NotOnServer,
               errorMessage)
        [] detector = "too-many-connections" ->
             createErrorHelp("Too Many Connections", Expl.TooMany,
                             errorMessage)
        [] detector = "ssl" ->
             createErrorHelp("SSL Connection Error", Expl.Ssl, errorMessage)
        [] detector = "prepared-statement" ->
             createErrorHelp("Prepared Statement Error", Expl.Prepared,
                             errorMessage)
        [] detector = "invalid-url" ->
             createErrorHelp("Invalid Database URL Format", Expl.InvalidUrl,
                             errorMessage)

\* createDefaultRegistry with the generic DNS detector registered first
createDefaultRegistryGenericFirst ==
  << "dns-generic", "dns-direct-connection",
     "connection-refused", "connection-timeout",
     "authentication", "database-not-found", "too-many-connections",
     "ssl", "prepared-statement",
     "invalid-url" >>

\* createDefaultRegistry: the detectors in their order of registration
createDefaultRegistry ==
  << "dns-direct-connection", "dns-generic",
     "connection-refused", "connection-timeout",
     "authentication", "database-not-found", "too-many-connections",
     "ssl", "prepared-statement",
     "invalid-url" >>

\* the detectors a caller registers itself
RegisteredByCaller == {"dns-generic", "dns-direct-connection", "ssl"}

\* findDetector that goes on to the last detector that matches
RECURSIVE findDetectorLastMatch(_, _, _, _)
findDetectorLastMatch(detectors, k, error, context) ==
  LET hits == { j \in DOMAIN detectors :
                  j >= k /\ canHandle(detectors[j], error, context) }
  IN  IF hits = {} THEN 0
      ELSE CHOOSE a \in hits : \A b \in hits : b <= a

\* DefaultErrorDetectorRegistry.findDetector, the loop from position k on:
\* the position of the detector returned, 0 for undefined
RECURSIVE findDetector(_, _, _, _)
findDetector(detectors, k, error, context) ==
  IF k > Len(detectors) THEN 0
  ELSE IF canHandle(detectors[k], error, context) THEN k
  ELSE findDetector(detectors, k + 1, error, context)

\* createGenericError that takes String(error) also for an Error
createGenericErrorStringified(error) ==
  LET message == IF error.isError
                   THEN (IF error.isTypeError THEN Str.TypeErrorColon
                                              ELSE Str.ErrorColon)
                        \o error.message
                   ELSE error.message
  IN  [ isKnownError |-> FALSE, title |-> "Connection Error",
        explanation |-> message, originalMessage |-> message ]

\* ConnectionErrorHandler.createGenericError
createGenericError(error) ==
  LET message == error.message
  IN  [ isKnownError |-> FALSE, title |-> "Connection Error",
        explanation |-> message, originalMessage |-> message ]

\* new ConnectionErrorHandler() over the default registry, or
\* new ConnectionErrorHandler({ registry }) over a registry just created
HandlerInit ==
  /\ Parked
  /\ runs = NoRuns
  /\ scanner = NoScan
  /\ handler \in { NoHandler,
                   [NoHandler EXCEPT !.detectors = createDefaultRegistry] }
  /\ watcher = NoWatcher
  /\ merger = NoMerge

\* registry.register(detector)
register(detector) ==
  /\ handler.registered < MaxRegistered
  /\ handler' = [handler EXCEPT
                   !.detectors = Append(@, detector),
                   !.registered = @ + 1,
                   !.method = "register",
                   !.error = NoError, !.context = NoUrl,
                   !.detector = 0, !.help = NoHelp]
  /\ UNCHANGED << parkedVars, runs, scanner, watcher, merger >>

\* the caller has not classified an error since the registry was last
\* changed (a classification leaves nothing behind but the registry, so
\* another one right after it reaches no state that this one does not)
CanClassify == handler.method \in {"none", "register"}

\* registry.findDetector(error, context)
callFindDetector(error, context) ==
  /\ CanClassify
  /\ handler' = [handler EXCEPT
                   !.method = "findDetector",
                   !.error = error, !.context = context,
                   !.detector = findDetector(handler.detectors, 1, error,
                                             context),
                   !.help = NoHelp]
  /\ UNCHANGED << parkedVars, runs, scanner, watcher, merger >>

\* handler.getHelp(error, context)
getHelp(error, context) ==
  /\ CanClassify
  /\ LET detector == findDetector(handler.detectors, 1, error, context)
     IN  handler' = [handler EXCEPT
                       !.method = "getHelp",
                       !.error = error, !.context = context,
                       !.detector = detector,
                       !.help = IF detector # 0
                                  THEN detectorGetHelp(
                                         handler.detectors[detector],
                                         error, context)
                                  ELSE createGenericError(error)]
  /\ UNCHANGED << parkedVars, runs, scanner, watcher, merger >>

HandlerNext ==
  \/ \E detector \in RegisteredByCaller : register(detector)
  \/ \E error \in ConnectionErrors, context \in ConnectionContexts :
       callFindDetector(error, context)
  \/ \E error \in ConnectionErrors, context \in ConnectionContexts :
       getHelp(error, context)

HandlerSpec == HandlerInit /\ [][HandlerNext]_vars

\* ------------------------------------------------------------------------
\* startWatcher(): the directory watcher with its countdown
\* ------------------------------------------------------------------------

\* options.countdownSeconds
CountdownChoices == {1, 2}

\* the filename of a change event: null (or empty), a match of
\* options.pattern, another file
WatchedNames == { <<>>, F1, FTxt }

\* the list s without its element at position k
RemoveAt(s, k) ==
  [j \in 1..(Len(s) - 1) |-> IF j < k THEN s[j] ELSE s[j + 1]]

\* clearTimeout(countdownTimer): nothing happens for a timer that fired
clearTimeout(w) ==
  IF w.countdownTimer \in DOMAIN w.timeouts
    THEN RemoveAt(w.timeouts, w.countdownTimer)
    ELSE w.timeouts

\* clearCountdown()
clearCountdown(w) ==
  [w EXCEPT !.timeouts = IF w.countdownTimer # 0 THEN clearTimeout(w) ELSE @,
            !.countdownTimer = 0,
            !.countdownInterval = FALSE]

\* startCountdown() without the test of isExecuting
startCountdownUnguarded(w) ==
  LET c == clearCountdown(w)
  IN  [c EXCEPT !.secondsRemaining = w.countdownSeconds,
                !.countdownInterval = TRUE,
                !.timeouts = Append(c.timeouts, w.countdownSeconds),
                !.countdownTimer = Len(c.timeouts) + 1,
                !.sinceChange = 0,
                !.queued = FALSE]

\* startCountdown() without the call of clearCountdown()
startCountdownNoClear(w) ==
  IF w.isExecuting
    THEN [w EXCEPT !.queued = TRUE]
    ELSE [w EXCEPT !.secondsRemaining = w.countdownSeconds,
                   !.countdownInterval = TRUE,
                   !.timeouts = Append(w.timeouts, w.countdownSeconds),
                   !.countdownTimer = Len(w.timeouts) + 1,
                   !.sinceChange = 0,
                   !.queued = FALSE]

\* startCountdown(): during an execution it only logs "Execution in
\* progress, change queued..."; otherwise it clears the countdown and sets
\* the interval and the timer anew
startCountdown(w) ==
  IF w.isExecuting
    THEN [w EXCEPT !.queued = TRUE]
    ELSE LET c == clearCountdown(w)
         IN  [c EXCEPT !.secondsRemaining = w.countdownSeconds,
                       !.countdownInterval = TRUE,
                       !.timeouts = Append(c.timeouts, w.countdownSeconds),
                       !.countdownTimer = Len(c.timeouts) + 1,
                       !.sinceChange = 0,
                       !.queued = FALSE]

\* startWatcher(options) has returned: fs.watch is listening, no timer set
WatchInit ==
  /\ Parked
  /\ runs = NoRuns
  /\ scanner = NoScan
  /\ handler = NoHandler
  /\ watcher \in { [NoWatcher EXCEPT !.started = TRUE,
                                     !.countdownSeconds = seconds] :
                     seconds \in CountdownChoices }
  /\ merger = NoMerge

\* the listener of fs.watch: a change of file `filename` is reported
FileChange(filename) ==
  /\ watcher.started
  /\ ~watcher.closed
  /\ watcher' =
       IF filename # <<>> /\ DEFAULT_FILE_PATTERN(filename)
         THEN [startCountdown(watcher) EXCEPT !.event = "change"]
         ELSE [watcher EXCEPT !.event = "other"]
  /\ UNCHANGED << parkedVars, runs, scanner, handler, merger >>

\* a second passes while no timer is due: every pending timer comes a
\* second closer and the callback of the interval, when set, counts down
Tick ==
  /\ watcher.started
  /\ \A k \in DOMAIN watcher.timeouts : watcher.timeouts[k] > 0
  /\ watcher' =
       [watcher EXCEPT
          !.timeouts = [k \in DOMAIN @ |-> @[k] - 1],
          !.secondsRemaining = IF watcher.countdownInterval THEN @ - 1 ELSE @,
          !.sinceChange = IF @ >= 0 /\ @ <= watcher.countdownSeconds
                            THEN @ + 1 ELSE @,
          !.event = "tick"]
  /\ UNCHANGED << parkedVars, runs, scanner, handler, merger >>

\* the callback of the countdown timer at position k, which is due: it
\* clears the countdown, sets isExecuting and calls onExecute; if that
\* throws at once the catch and finally blocks run right away, otherwise
\* the callback waits for the promise
TimerFires(k, throws) ==
  /\ k \in DOMAIN watcher.timeouts
  /\ watcher.timeouts[k] = 0
  /\ watcher.invocations < MaxExecutions
  /\ LET fired == [watcher EXCEPT
                     !.timeouts = RemoveAt(@, k),
                     !.countdownTimer = IF @ = k THEN -1
                                        ELSE IF @ > k THEN @ - 1
                                        ELSE @]
         c == clearCountdown(fired)
     IN  watcher' = [c EXCEPT
                       !.isExecuting = ~throws,
                       !.invocations = @ + 1,
                       !.inFlight = IF throws THEN @ ELSE @ + 1,
                       !.warnings = IF throws THEN @ + 1 ELSE @,
                       !.sinceChange = -1,
                       !.queued = FALSE,
                       !.event = "execute"]
  /\ UNCHANGED << parkedVars, runs, scanner, handler, merger >>

\* the timer callback without its finally block: a rejection leaves
\* isExecuting set
ExecutionSettlesNoFinally(ok) ==
  /\ watcher.inFlight > 0
  /\ watcher' = [watcher EXCEPT
                   !.inFlight = @ - 1,
                   !.isExecuting = ~ok,
                   !.warnings = IF ok THEN @ ELSE @ + 1,
                   !.event = IF ok THEN "resolved" ELSE "rejected"]
  /\ UNCHANGED << parkedVars, runs, scanner, handler, merger >>

\* the promise of onExecute settles: the callback logs a rejection as a
\* warning and its finally block resets isExecuting
ExecutionSettles(ok) ==
  /\ watcher.inFlight > 0
  /\ watcher' = [watcher EXCEPT
                   !.inFlight = @ - 1,
                   !.isExecuting = FALSE,
                   !.warnings = IF ok THEN @ ELSE @ + 1,
                   !.event = IF ok THEN "resolved" ELSE "rejected"]
  /\ UNCHANGED << parkedVars, runs, scanner, handler, merger >>

\* the cleanup function with watcher.close() only
CleanupNoClear ==
  /\ watcher.started
  /\ ~watcher.closed
  /\ watcher' = [watcher EXCEPT !.closed = TRUE, !.event = "cleanup"]
  /\ UNCHANGED << parkedVars, runs, scanner, handler, merger >>

\* the cleanup function startWatcher returned: clearCountdown() and
\* watcher.close()
Cleanup ==
  /\ watcher.started
  /\ ~watcher.closed
  /\ watcher' = [clearCountdown(watcher) EXCEPT
                   !.closed = TRUE, !.event = "cleanup"]
  /\ UNCHANGED << parkedVars, runs, scanner, handler, merger >>

WatchNext ==
  \/ \E filename \in WatchedNames : FileChange(filename)
  \/ Tick
  \/ \E k \in DOMAIN watcher.timeouts, throws \in BOOLEAN :
       TimerFires(k, throws)
  \/ \E ok \in BOOLEAN : ExecutionSettles(ok)
  \/ Cleanup

WatchSpec == WatchInit /\ [][WatchNext]_vars

\* ------------------------------------------------------------------------
\* Command line, config file and their merge (src/cli)
\* ------------------------------------------------------------------------

\* CLI_DEFAULTS of src/cli/types
CLI_DEFAULTS ==
  [ sqlDirectory |-> "./sql", skipConfirmation |-> FALSE,
    confirmationPhrase |-> "CONFIRM", verbose |-> FALSE, dryRun |-> FALSE,
    noLogs |-> FALSE, logDirectory |-> "./logs", watch |-> FALSE,
    help |-> FALSE, version |-> FALSE ]

\* the key of ConfigFileSchema that merge() copies into each field of CliArgs
FileKeys ==
  [ sqlDirectory |-> "directory", databaseUrl |-> "databaseUrl",
    envFile |-> "envFile", skipConfirmation |-> "yes",
    confirmationPhrase |-> "confirmationPhrase", verbose |-> "verbose",
    dryRun |-> "dryRun", noLogs |-> "noLogs",
    logDirectory |-> "logDirectory", onlyFiles |-> "only",
    skipFiles |-> "skip", watch |-> "watch", ssl |-> "ssl",
    filePattern |-> "filePattern", ignorePattern |-> "ignorePattern" ]

\* what an argument definition of the parser can store in its field: a flag
\* stores true, a value argument stores its non-empty value
ArgValues ==
  [ help |-> {TRUE}, version |-> {TRUE}, skipConfirmation |-> {TRUE},
    verbose |-> {TRUE}, dryRun |-> {TRUE}, noLogs |-> {TRUE},
    watch |-> {TRUE},
    sqlDirectory |-> {"./sql", "./cli-sql"},
    databaseUrl |-> {"postgres://cli/db"},
    envFile |-> {".env.cli"},
    confirmationPhrase |-> {"CONFIRM", "DO IT"},
    logDirectory |-> {"./logs", "./cli-logs"},
    onlyFiles |-> {<< "01.sql" >>},
    skipFiles |-> {<< "seed.sql" >>} ]

\* values of the keys of a config file
FileValues ==
  [ directory |-> {"./sql", "./config-sql"},
    databaseUrl |-> {"postgres://localhost/db"},
    envFile |-> {".env.local"},
    yes |-> BOOLEAN, confirmationPhrase |-> {"CONFIRM", "GO"},
    verbose |-> BOOLEAN, dryRun |-> BOOLEAN, noLogs |-> BOOLEAN,
    logDirectory |-> {"./custom-logs"},
    only |-> {<< "02.sql" >>}, skip |-> {<< "seed.sql" >>},
    watch |-> BOOLEAN, ssl |-> BOOLEAN,
    filePattern |-> {"\\.psql$"}, ignorePattern |-> {"^skip_"} ]

\* the objects that give a value of values[k] to each key k of keys
RECURSIVE Assignments(_, _)
Assignments(keys, values) ==
  IF keys = {} THEN { <<>> }
  ELSE LET k == CHOOSE x \in keys : TRUE
       IN  { (k :> v) @@ a : v \in values[k],
                             a \in Assignments(keys \ {k}, values) }

\* the subsets of S of at most k elements
RECURSIVE UpTo(_, _)
UpTo(S, k) ==
  IF k = 0 THEN { {} }
  ELSE LET smaller == UpTo(S, k - 1)
       IN  smaller \cup { T \cup {x} : T \in smaller, x \in S }

\* ArgParser.parse: the defaults, overwritten by the handler of each
\* argument; argv is held as the value each given argument carries
parse(argv) == argv @@ CLI_DEFAULTS

\* ConfigMerger.merge: the defaults, then every key the config file
\* defines, then the fields of the parsed command line that differ from
\* the default (the optional ones: that are defined), then help and version
merge(cliArgs, fileConfig) ==
  LET fromFile ==
        [ f \in { g \in DOMAIN FileKeys : FileKeys[g] \in DOMAIN fileConfig }
            |-> fileConfig[FileKeys[f]] ]
      used == ("configFileUsed" :> (DOMAIN fileConfig # {}))
      differs ==
        { f \in { "sqlDirectory", "skipConfirmation", "confirmationPhrase",
                  "verbose", "dryRun", "noLogs", "logDirectory", "watch" } :
            cliArgs[f] # CLI_DEFAULTS[f] }
      defined ==
        { "databaseUrl", "envFile", "onlyFiles", "skipFiles" }
          \cap DOMAIN cliArgs
      fromCli ==
        [ f \in differs \cup defined \cup { "help", "version" }
            |-> cliArgs[f] ]
  IN  fromCli @@ fromFile @@ used @@ CLI_DEFAULTS

\* a command line and a config file that set at most MaxOptions options
MergeInit ==
  /\ Parked
  /\ runs = NoRuns
  /\ scanner = NoScan
  /\ handler = NoHandler
  /\ watcher = NoWatcher
  /\ \E touched \in UpTo(DOMAIN ArgValues \cup DOMAIN FileKeys, MaxOptions) :
     \E given \in SUBSET (touched \cap DOMAIN ArgValues),
        inFile \in SUBSET (touched \cap DOMAIN FileKeys) :
       /\ given \cup inFile = touched
       /\ \E argv \in Assignments(given, ArgValues),
             fileConfig \in
               Assignments({ FileKeys[f] : f \in inFile }, FileValues) :
            merger = [ NoMerge EXCEPT !.argv = argv,
                                      !.fileConfig = fileConfig ]

\* CliExecutor: parse the command line, then merge it with the config file
loadConfiguration ==
  /\ ~ merger.called
  /\ merger' = [ merger EXCEPT
       !.called = TRUE,
       !.cliArgs = parse(merger.argv),
       !.result = merge(parse(merger.argv), merger.fileConfig) ]
  /\ UNCHANGED << parkedVars, runs, scanner, handler, watcher >>

MergeNext == loadConfiguration

MergeSpec == MergeInit /\ [][MergeNext]_vars

\* ------------------------------------------------------------------------
\* Two run() invocations in flight on one SqlRunner.  Both read and write
\* the fields this.executor and this.abortRequested; the locals of
\* invocation r are runs.inv[r].  The SqlExecutor that invocation r creates
\* has number r; runs.clients[r] is its client: "none" (no executor yet),
\* "new" (connecting), "open", "failed" (connect rejected) or "null".  The
\* runs have no callbacks and skip the confirmation; each has
\* MaxOverlapFiles files to execute.  Every function below runs from one
\* await of the invocation to its next one.
\* ------------------------------------------------------------------------

Invocations == {1, 2}

\* invocation r calls client.connect(), client.query() or client.end() on
\* the client of executor e and awaits it at position at
IssueOn(R, r, e, op, at) ==
  [R EXCEPT !.inv[r].pc = at, !.inv[r].op = op, !.inv[r].on = e]

\* the operation invocation r awaits has settled
SettledFor(R, r, ok) ==
  [R EXCEPT !.inv[r].ops =
              @ \cup {[op |-> R.inv[r].op, on |-> R.inv[r].on, ok |-> ok]},
            !.inv[r].op = "none"]

\* a statement succeeds only on a connection that is open
CanSettle(r, ok) ==
  ok => runs.clients[runs.inv[r].on] = "open"

\* the finally block of run(): disconnect() on this.executor, which awaits
\* client.end() if that executor holds a client
FinallyOf(R, r) ==
  IF R.executor # 0 /\ R.clients[R.executor] # "null"
    THEN IssueOn(R, r, R.executor, "END", "disconnect")
    ELSE [R EXCEPT !.inv[r].pc = "done"]

\* return this.createSummary(..., committed)
ReturnOf(R, r, committed) ==
  FinallyOf([R EXCEPT !.inv[r].outcome = "returned",
                      !.inv[r].committed = committed], r)

\* the catch block of run(): rollback() on this.executor, whose
\* ensureConnected throws (and is swallowed) when it holds no client
CatchOf(R, r, error) ==
  LET thrown == [R EXCEPT !.inv[r].err = error]
  IN  IF R.executor # 0 /\ R.clients[R.executor] # "null"
        THEN IssueOn(thrown, r, R.executor, "ROLLBACK", "catch_rollback")
        ELSE FinallyOf([thrown EXCEPT !.inv[r].outcome = "threw"], r)

\* an exception leaves the try of the file loop: the SIGINT listener of the
\* invocation is removed on the way to the catch block
LoopThrows(R, r, error) ==
  CatchOf([R EXCEPT !.sigintListeners = @ - 1], r, error)

\* this.executor.rollback() inside the loop's try
LoopRollback(R, r, at) ==
  IF R.clients[R.executor] = "null"
    THEN LoopThrows(R, r, "NotConnected")
    ELSE IssueOn(R, r, R.executor, "ROLLBACK", at)

\* the head of an iteration and the code after the loop
LoopOf(R, r) ==
  IF R.abortRequested
    THEN LoopRollback(R, r, "abort_rollback")
  ELSE IF R.inv[r].i < MaxOverlapFiles
    THEN \* this.executor.executeFile(filePath, i): ensureConnected, then
         \* createSavepoint on the same executor
         IF R.clients[R.executor] = "null"
           THEN LoopThrows(R, r, "NotConnected")
           ELSE IssueOn(R, r, R.executor, "SAVEPOINT", "savepoint")
  ELSE \* the listener is removed, then this.executor.commit()
       LET left == [R EXCEPT !.sigintListeners = @ - 1]
       IN  IF left.clients[left.executor] = "null"
             THEN CatchOf(left, r, "NotConnected")
             ELSE IssueOn(left, r, left.executor, "COMMIT", "commit")

\* the catch block of executeFile on executor e: rollbackToSavepoint, whose
\* ensureConnected throws out of executeFile when e holds no client
FileCatchOf(R, r) ==
  LET e == R.inv[r].on
  IN  IF R.clients[e] = "null"
        THEN LoopThrows(R, r, "NotConnected")
        ELSE IssueOn(R, r, e, "ROLLBACK TO", "rollback_to")

\* executeFile returned: push the result, stop on failure
AfterFileOf(R, r, success) ==
  LET pushed == [R EXCEPT !.inv[r].results = Append(@, success)]
  IN  IF ~success
        THEN LoopRollback(pushed, r, "fail_rollback")
        ELSE LoopOf([pushed EXCEPT !.inv[r].i = @ + 1], r)

OverlapInit ==
  /\ Parked
  /\ scanner = NoScan
  /\ handler = NoHandler
  /\ watcher = NoWatcher
  /\ merger = NoMerge
  /\ runs = NoRuns

\* run(options) is called: up to `await this.executor.connect()`, or, for a
\* dry run, up to the disconnect of the finally block
OverlapStartRun(r, dryRun) ==
  /\ runs.inv[r].pc = "idle"
  /\ LET R == [runs EXCEPT !.overlapped =
                 @ \/ \E o \in Invocations :
                        runs.inv[o].pc \notin {"idle", "done"}]
     IN  runs' =
           IF dryRun
             THEN ReturnOf(R, r, FALSE)
             ELSE IssueOn([R EXCEPT !.executor = r, !.clients[r] = "new"],
                          r, r, "CONNECT", "connect")
  /\ UNCHANGED << parkedVars, scanner, handler, watcher, merger >>

\* client.connect() settles (the executor keeps no client that a disconnect
\* has dropped meanwhile); then this.executor.beginTransaction()
OverlapConnectDone(r, ok) ==
  /\ runs.inv[r].pc = "connect"
  /\ LET R == [SettledFor(runs, r, ok) EXCEPT
                 !.clients[runs.inv[r].on] =
                   IF @ # "new" THEN @ ELSE IF ok THEN "open" ELSE "failed"]
     IN  runs' =
           IF ~ok THEN CatchOf(R, r, "connect")
           ELSE IF R.clients[R.executor] = "null"
             THEN CatchOf(R, r, "NotConnected")
           ELSE IssueOn(R, r, R.executor, "BEGIN", "begin")
  /\ UNCHANGED << parkedVars, scanner, handler, watcher, merger >>

\* BEGIN settles; the flag is reset, the listener installed, the loop starts
OverlapBeginDone(r, ok) ==
  /\ runs.inv[r].pc = "begin"
  /\ CanSettle(r, ok)
  /\ LET R == SettledFor(runs, r, ok)
     IN  runs' =
           IF ok
             THEN LoopOf([R EXCEPT !.abortRequested = FALSE,
                                   !.sigintListeners = @ + 1], r)
             ELSE CatchOf(R, r, "begin")
  /\ UNCHANGED << parkedVars, scanner, handler, watcher, merger >>

\* SAVEPOINT settles; this.client!.query(sql) throws a TypeError inside the
\* try when the executor has lost its client
OverlapSavepointDone(r, ok) ==
  /\ runs.inv[r].pc = "savepoint"
  /\ CanSettle(r, ok)
  /\ LET R == SettledFor(runs, r, ok)
     IN  runs' =
           IF ok /\ R.clients[R.inv[r].on] # "null"
             THEN IssueOn(R, r, R.inv[r].on, "QUERY", "query")
             ELSE FileCatchOf(R, r)
  /\ UNCHANGED << parkedVars, scanner, handler, watcher, merger >>

\* the batch settles; releaseSavepoint
OverlapQueryDone(r, ok) ==
  /\ runs.inv[r].pc = "query"
  /\ CanSettle(r, ok)
  /\ LET R == SettledFor(runs, r, ok)
     IN  runs' =
           IF ok /\ R.clients[R.inv[r].on] # "null"
             THEN IssueOn(R, r, R.inv[r].on, "RELEASE", "release")
             ELSE FileCatchOf(R, r)
  /\ UNCHANGED << parkedVars, scanner, handler, watcher, merger >>

OverlapReleaseDone(r, ok) ==
  /\ runs.inv[r].pc = "release"
  /\ CanSettle(r, ok)
  /\ LET R == SettledFor(runs, r, ok)
     IN  runs' = IF ok THEN AfterFileOf(R, r, TRUE) ELSE FileCatchOf(R, r)
  /\ UNCHANGED << parkedVars, scanner, handler, watcher, merger >>

OverlapRollbackToDone(r, ok) ==
  /\ runs.inv[r].pc = "rollback_to"
  /\ CanSettle(r, ok)
  /\ runs' = AfterFileOf(SettledFor(runs, r, ok), r, FALSE)
  /\ UNCHANGED << parkedVars, scanner, handler, watcher, merger >>

\* the outer ROLLBACK of the loop settles
OverlapRollbackDone(r, ok) ==
  /\ runs.inv[r].pc \in {"abort_rollback", "fail_rollback"}
  /\ CanSettle(r, ok)
  /\ LET R == [SettledFor(runs, r, ok) EXCEPT !.sigintListeners = @ - 1]
     IN  runs' = IF ok THEN ReturnOf(R, r, FALSE)
                       ELSE CatchOf(R, r, "rollback")
  /\ UNCHANGED << parkedVars, scanner, handler, watcher, merger >>

OverlapCommitDone(r, ok) ==
  /\ runs.inv[r].pc = "commit"
  /\ CanSettle(r, ok)
  /\ LET R == SettledFor(runs, r, ok)
     IN  runs' = IF ok THEN ReturnOf(R, r, TRUE) ELSE CatchOf(R, r, "commit")
  /\ UNCHANGED << parkedVars, scanner, handler, watcher, merger >>

\* the rollback of the catch block settles; the exception is rethrown
OverlapCatchRollbackDone(r, ok) ==
  /\ runs.inv[r].pc = "catch_rollback"
  /\ CanSettle(r, ok)
  /\ runs' = FinallyOf([SettledFor(runs, r, ok) EXCEPT
                          !.inv[r].outcome = "threw"], r)
  /\ UNCHANGED << parkedVars, scanner, handler, watcher, merger >>

\* client.end() settles: the executor it was called on drops its client
OverlapDisconnectDone(r, ok) ==
  /\ runs.inv[r].pc = "disconnect"
  /\ LET R == SettledFor(runs, r, ok)
     IN  runs' =
           IF ok
             THEN [R EXCEPT !.clients[R.inv[r].on] = "null",
                            !.inv[r].pc = "done"]
             ELSE [R EXCEPT !.inv[r].pc = "done",
                            !.inv[r].err = "end",
                            !.inv[r].outcome = "threw"]
  /\ UNCHANGED << parkedVars, scanner, handler, watcher, merger >>

\* SIGINT: every registered listener sets this.abortRequested
OverlapSigint ==
  /\ runs.sigintListeners > 0
  /\ ~runs.abortRequested
  /\ runs' = [runs EXCEPT !.abortRequested = TRUE]
  /\ UNCHANGED << parkedVars, scanner, handler, watcher, merger >>

OverlapNext ==
  \/ \E r \in Invocations, dryRun \in BOOLEAN : OverlapStartRun(r, dryRun)
  \/ \E r \in Invocations, ok \in BOOLEAN : OverlapConnectDone(r, ok)
  \/ \E r \in Invocations, ok \in BOOLEAN : OverlapBeginDone(r, ok)
  \/ \E r \in Invocations, ok \in BOOLEAN : OverlapSavepointDone(r, ok)
  \/ \E r \in Invocations, ok \in BOOLEAN : OverlapQueryDone(r, ok)
  \/ \E r \in Invocations, ok \in BOOLEAN : OverlapReleaseDone(r, ok)
  \/ \E r \in Invocations, ok \in BOOLEAN : OverlapRollbackToDone(r, ok)
  \/ \E r \in Invocations, ok \in BOOLEAN : OverlapRollbackDone(r, ok)
  \/ \E r \in Invocations, ok \in BOOLEAN : OverlapCommitDone(r, ok)
  \/ \E r \in Invocations, ok \in BOOLEAN : OverlapCatchRollbackDone(r, ok)
  \/ \E r \in Invocations, ok \in BOOLEAN : OverlapDisconnectDone(r, ok)
  \/ OverlapSigint

OverlapSpec == OverlapInit /\ [][OverlapNext]_vars

\* ------------------------------------------------------------------------
\* Vocabulary of the properties
\* ------------------------------------------------------------------------

Done == pc = "done"
ReturnedSummary == outcome.kind = "returned"
ThrewError == outcome.kind = "threw"

\* the operation op was issued on the client (and settled with status ok)
Issued(op) == \E k \in DOMAIN log : log[k].op = op
IssuedOk(op) == \E k \in DOMAIN log : log[k].op = op /\ log[k].ok = "ok"

\* the savepoint identifier, as sent, of the file at position j (1-based)
SavepointOf(j) == quoteSqlIdentifier(createSavepointName(fileNames[j], j - 1))

\* number of invocations of callback name
Invoked(name) == Cardinality({k \in DOMAIN cbs : cbs[k].cb = name})

\* file k is the first failing file of this run
FailedAt(k) ==
  /\ k \in DOMAIN results
  /\ ~results[k].success
  /\ \A j \in 1..(k - 1) : results[j].success

AnyFailure == \E k \in DOMAIN results : ~results[k].success

\* nothing was done for a file after position k
NoLaterFile(k) ==
  /\ \A n \in DOMAIN cbs : cbs[n].cb = "onBeforeFile" => cbs[n].index < k
  /\ \A n \in DOMAIN log :
       /\ log[n].op = "QUERY" =>
            \E j \in 1..k : log[n].arg = filesToExecute[j]
       /\ log[n].op \in {"SAVEPOINT", "RELEASE", "ROLLBACK TO"} =>
            \E j \in 1..k : log[n].arg = SavepointOf(j)

\* run() returned the summary of a run that stopped at failing file k
SummaryOfFailure(k) ==
  /\ ReturnedSummary
  /\ outcome.summary.results = results
  /\ Len(outcome.summary.results) = k
  /\ outcome.summary.totalFiles = k
  /\ outcome.summary.committed = FALSE
  /\ outcome.summary.allSuccessful = FALSE

\* ------------------------------------------------------------------------
\* C1
\* ------------------------------------------------------------------------

\* C1 as stated: when files 1..K-1 succeed and file K fails, nothing is done
\* for files K+1..N and run() returns a summary with exactly K results,
\* committed=false and allSuccessful=false.
C1_ReturnsSummaryOfKResults ==
  \A k \in DOMAIN results :
    FailedAt(k) => /\ NoLaterFile(k)
                   /\ Done => SummaryOfFailure(k)

\* C1 amended: when files 1..K-1 succeed and file K fails, the failure is the
\* last result, nothing is done for files K+1..N (no onBeforeFile, no
\* savepoint, no statement), COMMIT is never issued, and run() either returns
\* a summary with exactly K results, committed=false and allSuccessful=false,
\* or throws because onAfterFile of file K, the outer ROLLBACK or the final
\* disconnect raised (onError raising in the catch block included).
C1_FailureStopsRun ==
  \A k \in DOMAIN results :
    FailedAt(k) =>
      /\ Len(results) = k
      /\ NoLaterFile(k)
      /\ ~Issued("COMMIT")
      /\ Done => \/ SummaryOfFailure(k)
                 \/ /\ ThrewError
                    /\ outcome.error \in {"onAfterFile", "rollback", "onError",
                                          "end"}

\* a three file run whose second file failed returned its summary
C1_Witness ==
  /\ Done
  /\ Len(filesToExecute) = 3
  /\ FailedAt(2)
  /\ SummaryOfFailure(2)

\* ------------------------------------------------------------------------
\* C2
\* ------------------------------------------------------------------------

\* C2: all-or-nothing.  COMMIT is issued only after every file of the
\* execution list produced a successful result and no cancellation was
\* requested; a run in which some result is a failure never issues COMMIT and
\* has issued the outer ROLLBACK by the time it ends.
C2_AllOrNothing ==
  /\ Issued("COMMIT") =>
       /\ Len(results) = Len(filesToExecute)
       /\ \A k \in DOMAIN results : results[k].success
       /\ ~abortRequested
  /\ AnyFailure =>
       /\ ~Issued("COMMIT")
       /\ Done => Issued("ROLLBACK")

\* ------------------------------------------------------------------------
\* C3
\* ------------------------------------------------------------------------

\* C3: in every summary returned by run(), committed=true implies that every
\* entry of results has success=true.
C3_CommittedImpliesAllSucceeded ==
  (ReturnedSummary /\ outcome.summary.committed) =>
    \A k \in DOMAIN outcome.summary.results :
      outcome.summary.results[k].success

\* a committed summary of three files was returned
C3_Witness ==
  /\ Done
  /\ ReturnedSummary
  /\ outcome.summary.committed
  /\ Len(outcome.summary.results) = 3

\* the converse fails: a summary without any failure that is not committed
C3_ConverseFails ==
  /\ Done
  /\ ReturnedSummary
  /\ outcome.summary.allSuccessful
  /\ ~outcome.summary.committed

\* ------------------------------------------------------------------------
\* C4
\* ------------------------------------------------------------------------

\* C4: when run() has ended, returning or throwing, every connection it
\* opened (every connect() it called) has been followed by the disconnect
\* (client.end()), and that disconnect has settled.
C4_AlwaysDisconnects ==
  Done =>
    \A k \in DOMAIN log :
      log[k].op = "CONNECT" =>
        \E j \in (k + 1)..Len(log) :
          log[j].op = "END" /\ log[j].ok # "pending"

\* the exception path: COMMIT failed, run() threw, the connection was closed
C4_Witness ==
  /\ Done
  /\ ThrewError
  /\ outcome.error = "commit"
  /\ IssuedOk("CONNECT")
  /\ IssuedOk("END")

\* ------------------------------------------------------------------------
\* C5
\* ------------------------------------------------------------------------

Started == Invoked("onBeforeFile")

\* C5: cancellation is honoured only at file boundaries.  A request only sets
\* the flag (the statement in flight, the results and the position of run()
\* are untouched); the flag is acted on only at the head of an iteration or
\* after the loop, when every started file has its result; once the flag is
\* set no further file is started.
C5_CancelAtFileBoundaries ==
  [][ /\ (~abortRequested /\ abortRequested') =>
           /\ pc' = pc
           /\ log' = log
           /\ results' = results
           /\ cbs' = cbs
      /\ (pc # "abort_rollback" /\ pc' = "abort_rollback") =>
           /\ pc = "loop"
           /\ abortRequested
           /\ Len(results) = Started
      /\ (abortRequested /\ sigintListeners > 0) => Started' = Started
    ]_vars

\* a cancellation requested during the first of three files is honoured
\* before the second one
C5_Witness ==
  /\ pc = "abort_rollback"
  /\ abortRequested
  /\ Len(filesToExecute) = 3
  /\ Len(results) = 1
  /\ Started = 1

\* ------------------------------------------------------------------------
\* C6
\* ------------------------------------------------------------------------

\* a cancellation was requested while the handler of this run was registered
\* (the flag is cleared when the handler is installed, after BEGIN)
CancelRequested == abortRequested /\ IssuedOk("BEGIN")

\* run() returned the summary of a run that was cancelled
SummaryOfCancel ==
  /\ ReturnedSummary
  /\ outcome.summary.committed = FALSE
  /\ outcome.summary.results = results
  /\ \A k \in DOMAIN results : results[k].success
  /\ Len(results) = Started
  /\ IssuedOk("ROLLBACK")
  /\ Invoked("onError") = 0

\* C6 as stated: a cancellation requested while the handler is registered
\* and no file has failed makes the run roll back, never COMMIT, invoke
\* neither onComplete nor onError, and return a summary with committed=false
\* whose results are the files completed before.
C6_CancelReturnsSummary ==
  (CancelRequested /\ ~AnyFailure) =>
    /\ ~Issued("COMMIT")
    /\ Invoked("onComplete") = 0
    /\ Done => SummaryOfCancel

\* C6 amended: a cancellation requested while the handler is registered and
\* no file has failed means that COMMIT is never issued and onComplete never
\* invoked; run() rolls back, does not invoke onError and returns a summary
\* with committed=false whose results are exactly the files completed before
\* the cancellation was honoured, unless onAfterFile of the file in flight,
\* the outer ROLLBACK or the final disconnect raises, and then run() throws.
C6_CancelNeverCommits ==
  (CancelRequested /\ ~AnyFailure) =>
    /\ ~Issued("COMMIT")
    /\ Invoked("onComplete") = 0
    /\ Done => \/ SummaryOfCancel
               \/ /\ ThrewError
                  /\ outcome.error \in {"onAfterFile", "rollback", "onError",
                                        "end"}

\* cancelled during the last of two files: rolled back, summary returned
C6_Witness ==
  /\ Done
  /\ CancelRequested
  /\ Len(filesToExecute) = 2
  /\ Len(results) = 2
  /\ SummaryOfCancel

\* ------------------------------------------------------------------------
\* C7
\* ------------------------------------------------------------------------

\* C7: every failure of one file during the loop ends up as a success=false
\* result and run() does not throw for it; what reaches the catch block of
\* run() is a configuration error or an unexpected exception that is not the
\* failure of a file (connect, BEGIN, COMMIT or the outer ROLLBACK failing, a
\* callback of the caller throwing).
C7_FileFailuresAreCaptured ==
  pc = "catch" =>
    err \in {"url", "dir", "connect", "begin", "commit", "rollback",
             "onBeforeFile", "onAfterFile", "onComplete"}

\* ------------------------------------------------------------------------
\* C8
\* ------------------------------------------------------------------------

IsLifecycleEnd(e) == e.cb \in {"onComplete", "onError"}

\* C8: the callbacks come in the fixed order.  Every onAfterFile directly
\* follows the onBeforeFile of the same file, the pairs follow the execution
\* order, onComplete and onError come after every file callback, and at most
\* one of the two is invoked.  (An onBeforeFile whose file was never executed
\* because the iteration threw has no onAfterFile.)
C8_CallbackOrder ==
  /\ \A k \in DOMAIN cbs :
       /\ cbs[k].cb = "onAfterFile" =>
            /\ k > 1
            /\ cbs[k - 1].cb = "onBeforeFile"
            /\ cbs[k - 1].file = cbs[k].result.fileName
       /\ cbs[k].cb = "onBeforeFile" =>
            /\ cbs[k].index = Cardinality({j \in 1..(k - 1) :
                                             cbs[j].cb = "onBeforeFile"})
            /\ k < Len(cbs) => cbs[k + 1].cb \in {"onAfterFile", "onError"}
       /\ IsLifecycleEnd(cbs[k]) => k = Len(cbs)
  /\ Invoked("onComplete") + Invoked("onError") <= 1

\* ------------------------------------------------------------------------
\* C9
\* ------------------------------------------------------------------------

IsBefore(e) == e.cb = "onBeforeFile"
IsQuery(st) == st.op = "QUERY"

\* C9: files are executed in the scanner's sorted order restricted to the
\* files that pass the filters.  The execution list is strictly increasing
\* and drawn from the scanned files; the n-th onBeforeFile is
\* (name of the n-th file, n-1, length of the list); the n-th result and the
\* n-th batch are those of the n-th file; so no file runs twice or out of
\* order.
C9_ExecutionFollowsFilteredOrder ==
  LET befores == SelectSeq(cbs, IsBefore)
      queries == SelectSeq(log, IsQuery)
  IN
  /\ \A k \in 1..(Len(fileNames) - 1) : LexLess(fileNames[k], fileNames[k + 1])
  /\ \A k \in DOMAIN fileNames :
       \E n \in DOMAIN scan.files :
         fileNames[k] = scan.files[n] /\ filesToExecute[k] = scan.filePaths[n]
  /\ Len(befores) <= Len(fileNames)
  /\ \A n \in DOMAIN befores :
       /\ befores[n].file = fileNames[n]
       /\ befores[n].index = n - 1
       /\ befores[n].total = Len(fileNames)
  /\ Len(results) <= Len(befores)
  /\ \A n \in DOMAIN results :
       /\ results[n].fileName = fileNames[n]
       /\ results[n].filePath = filesToExecute[n]
  /\ Len(queries) <= Len(befores)
  /\ \A n \in DOMAIN queries : queries[n].arg = filesToExecute[n]

\* "10.sql" is skipped out of { "2.sql", "10.sql", "1.sql" }: "1.sql" then
\* "2.sql" were executed and committed
C9_Witness ==
  /\ Done
  /\ ReturnedSummary
  /\ outcome.summary.committed
  /\ Len(scan.files) = 3
  /\ opts.skipFiles = <<F10>>
  /\ Len(results) = 2
  /\ results[1].fileName = F1
  /\ results[2].fileName = F2

\* ------------------------------------------------------------------------
\* C10
\* ------------------------------------------------------------------------

\* a scanned name passes the filters of this invocation
Keep(f) ==
  /\ opts.onlyFiles = <<>> \/ f \in Range(opts.onlyFiles)
  /\ f \notin Range(opts.skipFiles)

\* a requested name that the scan did not find
Unscanned(f) == f \notin Range(scan.files)

\* C10: the execution list is the scanned list, in scan order, restricted to
\* onlyFiles (when given) and without the names of skipFiles; the paths are
\* aligned with the names; requested names that were not scanned give one
\* warning that lists them, and the step that warns raises no error.
C10_FilteredExecutionList ==
  /\ [](/\ fileNames = SelectSeq(scan.files, Keep)
        /\ Len(filesToExecute) = Len(fileNames)
        /\ \A k \in DOMAIN fileNames :
             /\ Basename(filesToExecute[k]) = fileNames[k]
             /\ \E n \in DOMAIN scan.files :
                  /\ scan.files[n] = fileNames[k]
                  /\ scan.filePaths[n] = filesToExecute[k]
        /\ warnings \in {<<>>, <<SelectSeq(opts.onlyFiles, Unscanned)>>}
        /\ (scan.files # <<>> /\ SelectSeq(opts.onlyFiles, Unscanned) # <<>>)
             => warnings # <<>>
        /\ warnings # <<>> => SelectSeq(opts.onlyFiles, Unscanned) # <<>>)
  /\ [][warnings' # warnings /\ warnings' # <<>> =>
          /\ pc' \in {"finally", "confirm", "connect"}
          /\ err' = "none"]_vars

\* the scenario of the tests: only { "2.sql", "10.sql" }, skip { "10.sql" },
\* over three scanned files: exactly "2.sql" is to be executed
C10_Witness ==
  /\ Len(scan.files) = 3
  /\ opts.onlyFiles = <<F2, F10>>
  /\ opts.skipFiles = <<F10>>
  /\ fileNames = <<F2>>
  /\ filesToExecute = <<PathJoin(ResolvedDir, F2)>>
  /\ pc = "connect"

\* ------------------------------------------------------------------------
\* C11
\* ------------------------------------------------------------------------

\* this invocation scanned the directory and found no file to execute
ZeroFilesScanned ==
  /\ pc \in {"finally", "disconnect", "done"}
  /\ scan.files = <<>>
  /\ cbs = <<>>

EmptySummary(summary) ==
  /\ summary.totalFiles = 0
  /\ summary.results = <<>>
  /\ summary.committed = FALSE
  /\ summary.allSuccessful = TRUE

\* this invocation closes a connection it did not open: one that an earlier
\* run() on the same SqlRunner left behind
ClosesEarlierConnection ==
  \E k \in DOMAIN log :
    /\ log[k].op = "END"
    /\ \A j \in 1..(k - 1) : log[j].op # "CONNECT"

\* C11: when the scanned directory has zero files to execute, run() creates
\* no executor, opens no connection, does not ask for confirmation, and
\* returns a summary with totalFiles=0, committed=false, allSuccessful=true.
C11_ZeroFilesReturnsEmptySummary ==
  ZeroFilesScanned =>
    /\ ~Issued("CONNECT")
    /\ prompt = NoPrompt
    /\ outcome.kind # "running"
    /\ Done => /\ ReturnedSummary
               /\ EmptySummary(outcome.summary)

\* C11 holds for every invocation that finds no connection of an earlier one
C11_UnlessEarlierConnection ==
  (ZeroFilesScanned /\ ~ClosesEarlierConnection) =>
    /\ ~Issued("CONNECT")
    /\ prompt = NoPrompt
    /\ log = <<>>
    /\ ReturnedSummary
    /\ EmptySummary(outcome.summary)

\* ------------------------------------------------------------------------
\* C12
\* ------------------------------------------------------------------------

\* this invocation was a dry run over a valid configuration
DryRunTaken ==
  /\ pc \in {"finally", "disconnect", "done"}
  /\ opts.dryRun
  /\ cbs = <<>>

\* an SQL statement (not the opening or the closing of a connection)
IsStatement(st) == st.op \notin {"CONNECT", "END"}

\* C12: with dryRun=true run() never opens a connection, issues no
\* statement, never prompts for confirmation, and returns committed=false
\* with an empty results list, for any number of scanned files.
C12_DryRunTouchesNothing ==
  DryRunTaken =>
    /\ ~Issued("CONNECT")
    /\ SelectSeq(log, IsStatement) = <<>>
    /\ prompt = NoPrompt
    /\ outcome.kind # "running"
    /\ Done => /\ ReturnedSummary
               /\ outcome.summary.committed = FALSE
               /\ outcome.summary.results = <<>>

\* C12 holds for every invocation that finds no connection of an earlier one
C12_UnlessEarlierConnection ==
  (DryRunTaken /\ ~ClosesEarlierConnection) =>
    /\ log = <<>>
    /\ prompt = NoPrompt
    /\ ReturnedSummary
    /\ outcome.summary.committed = FALSE
    /\ outcome.summary.results = <<>>

\* a dry run over three scanned files
C12_DryRunOfThreeFiles ==
  /\ Done
  /\ DryRunTaken
  /\ Len(scan.files) = 3
  /\ ReturnedSummary

\* ------------------------------------------------------------------------
\* C13
\* ------------------------------------------------------------------------

\* the prompt was resolved to 'not confirmed'
NotConfirmed == prompt.resolved # <<>> /\ ~Head(prompt.resolved)

\* the typed answer was the confirmation phrase, on an interactive terminal
TypedThePhrase ==
  /\ prompt.isTTY
  /\ prompt.event = "line"
  /\ prompt.answer = confirmationPhrase

\* the promise of requestConfirmation is resolved once, and to 'confirmed'
\* only for the exact phrase
ResolvedOnce ==
  /\ Len(prompt.resolved) <= 1
  /\ (prompt.asked /\ pc # "confirm") => Len(prompt.resolved) = 1
  /\ (prompt.asked /\ ~prompt.isTTY) => prompt.resolved = <<FALSE>>
  /\ prompt.event \in {"error", "SIGINT", "close"} =>
       prompt.resolved = <<FALSE>>
  /\ prompt.event = "line" =>
       prompt.resolved = <<prompt.answer = confirmationPhrase>>
  /\ prompt.event # "none" => prompt.closed /\ prompt.answered

\* C13: when confirmation is required and not skipped, no connection is
\* opened unless the typed answer equals the phrase exactly; non-interactive
\* input, a declined answer, a prompt error, an interrupt and a closed stream
\* each resolve the prompt exactly once to 'not confirmed', and run() then
\* returns (does not throw) an empty summary with committed=false.
C13_NoConnectionUnlessConfirmed ==
  /\ (pc # "idle" /\ ~opts.skipConfirmation /\ Issued("CONNECT")) =>
       TypedThePhrase
  /\ ResolvedOnce
  /\ NotConfirmed =>
       /\ ~Issued("CONNECT")
       /\ SelectSeq(log, IsStatement) = <<>>
       /\ Done => /\ ReturnedSummary
                  /\ outcome.summary.results = <<>>
                  /\ outcome.summary.totalFiles = 0
                  /\ outcome.summary.committed = FALSE

\* C13 holds for every invocation that finds no connection of an earlier one
C13_UnlessEarlierConnection ==
  /\ (pc # "idle" /\ ~opts.skipConfirmation /\ Issued("CONNECT")) =>
       TypedThePhrase
  /\ ResolvedOnce
  /\ (NotConfirmed /\ ~ClosesEarlierConnection) =>
       /\ log = <<>>
       /\ pc # "confirm" =>
            /\ ReturnedSummary
            /\ outcome.summary.results = <<>>
            /\ outcome.summary.totalFiles = 0
            /\ outcome.summary.committed = FALSE

\* the phrase was typed and the run connected; an interrupt at the prompt
\* ended another run with a summary
C13_Confirmed ==
  /\ TypedThePhrase
  /\ IssuedOk("CONNECT")

C13_Interrupted ==
  /\ Done
  /\ prompt.event = "SIGINT"
  /\ ReturnedSummary

\* ------------------------------------------------------------------------
\* C14
\* ------------------------------------------------------------------------

\* the database URL is unparsable, or has no hostname, or has no username
BadUrl ==
  \/ ~databaseUrl.parses
  \/ databaseUrl.hostname = ""
  \/ databaseUrl.username = ""

\* the exception this invocation handles (or handled) is a configuration error
ConfigError ==
  \/ pc = "catch" /\ err \in {"url", "dir"}
  \/ cbs # <<>> /\ cbs[1].cb = "onError" /\ cbs[1].error \in {"url", "dir"}

\* C14: a configuration error (unparsable URL, URL without hostname or
\* username, missing directory, path that is not a directory) makes run()
\* throw before any connection is opened and without any retry: nothing is
\* scanned again, no prompt is shown, and run() is entered once per call.
C14_ConfigErrorsFailFast ==
  /\ [](/\ (BadUrl /\ pc # "idle") => ConfigError
        /\ ConfigError =>
             /\ ~Issued("CONNECT")
             /\ prompt = NoPrompt
             /\ scan = EmptyScan
             /\ results = <<>>
             /\ outcome.kind # "returned"
             /\ Done => ThrewError)
  /\ [][/\ (pc = "idle" /\ pc' # "idle" /\ BadUrl) =>
            (pc' = "catch" /\ err' = "url" /\ log' = log)
        /\ (pc = "idle" /\ pc' = "catch") =>
            (err' \in {"url", "dir"} /\ log' = log /\ executor' = executor)
        /\ (pc # "idle" /\ pc' = "idle") =>
            (pc = "done" /\ runNo' = runNo + 1)]_vars

\* a URL without hostname made run() throw the error of parseDatabaseUrl
C14_Witness ==
  /\ Done
  /\ databaseUrl.parses
  /\ databaseUrl.hostname = ""
  /\ ThrewError
  /\ outcome.error = "url"

\* a missing directory, or a path that is not one, made run() throw as well
C14_DirectoryCase ==
  /\ Done
  /\ ~BadUrl
  /\ ThrewError
  /\ outcome.error = "dir"

\* ------------------------------------------------------------------------
\* C15
\* ------------------------------------------------------------------------

\* exceptions raised outside the per-file loop by the connection
OuterErrors == {"connect", "begin", "commit", "rollback"}

\* the catch block of this invocation was entered with such an exception
OuterExceptionHandled ==
  /\ cbs # <<>>
  /\ cbs[Len(cbs)].cb = "onError"
  /\ cbs[Len(cbs)].error \in OuterErrors

OriginalError == cbs[Len(cbs)].error

IsRollback(st) == st.op = "ROLLBACK"
Rollbacks == SelectSeq(log, IsRollback)

\* the rollback of the catch block was attempted once and has settled (when
\* the original exception is a failed ROLLBACK, it is the second one)
CatchRollbackAttemptedOnce ==
  /\ Len(Rollbacks) = IF OriginalError = "rollback" THEN 2 ELSE 1
  /\ Rollbacks[Len(Rollbacks)].ok # "pending"
  /\ log[Len(log)].op \in {"ROLLBACK", "END"}

\* C15: on an exception outside the per-file loop (connect, BEGIN, COMMIT or
\* ROLLBACK failing) run() invokes onError once, attempts the outer rollback
\* once, swallows a failure of that rollback, and re-raises the original
\* exception to the caller (unless closing the connection fails afterwards,
\* whose exception then takes its place).
C15_OuterExceptionHandling ==
  OuterExceptionHandled =>
    /\ Invoked("onError") = 1
    /\ pc \in {"finally", "disconnect", "done"} => CatchRollbackAttemptedOnce
    /\ Done => /\ ThrewError
               /\ outcome.error \in {OriginalError, "end"}

\* what does hold: onError is invoked once and run() throws; the rollback is
\* attempted and the original exception re-raised unless onError itself threw
C15_UnlessOnErrorThrows ==
  OuterExceptionHandled =>
    /\ Invoked("onError") = 1
    /\ (pc = "finally" /\ err # "onError") =>
         /\ CatchRollbackAttemptedOnce
         /\ outcome = Threw(OriginalError)
    /\ (pc = "finally" /\ err = "onError") =>
         /\ Len(Rollbacks) = IF OriginalError = "rollback" THEN 1 ELSE 0
         /\ outcome = Threw("onError")
    /\ Done => ThrewError

\* BEGIN failed, the rollback of the catch block failed too, and the caller
\* got the exception of BEGIN
C15_RollbackFailureSwallowed ==
  /\ Done
  /\ OuterExceptionHandled
  /\ OriginalError = "begin"
  /\ Rollbacks # <<>>
  /\ Rollbacks[1].ok = "failed"
  /\ outcome = Threw("begin")

\* ------------------------------------------------------------------------
\* Vocabulary of the properties about SqlExecutor used directly
\* ------------------------------------------------------------------------

\* this step is the call of `method` (up to its first await or its return)
Calls(method) ==
  /\ call.at = "none"
  /\ call'.n = call.n + 1
  /\ call'.method = method

\* the last call has settled
Settles == call.at = "none" /\ call.method # "none"

\* the executor is Disconnected: it holds no client
Disconnected == client = "null"

\* ------------------------------------------------------------------------
\* C16
\* ------------------------------------------------------------------------

GuardedMethods ==
  {"beginTransaction", "commit", "rollback", "createSavepoint",
   "releaseSavepoint", "executeFile"}

\* C16: while the executor is Disconnected, beginTransaction, commit,
\* rollback, createSavepoint, releaseSavepoint and executeFile each fail
\* with 'Database not connected', issue no statement and never connect
\* implicitly; the executor is unchanged by the failed call.
C16_NotConnectedFails ==
  [][\A method \in GuardedMethods :
       (Calls(method) /\ Disconnected) =>
         /\ call'.ret = "NotConnected"
         /\ call'.at = "none"
         /\ log' = log
         /\ client' = client]_vars

\* executeFile was refused on an executor that had been disconnected
C16_Witness ==
  /\ Settles
  /\ call.method = "executeFile"
  /\ call.ret = "NotConnected"
  /\ Disconnected
  /\ IssuedOk("END")

\* ------------------------------------------------------------------------
\* C17
\* ------------------------------------------------------------------------

\* C17: disconnect() on an executor that is already disconnected (never
\* connected, or disconnected before) returns without throwing, closes
\* nothing and leaves the executor as it is; so whatever the sequence of
\* disconnect() calls, a connection is not closed twice: between two
\* client.end() that succeeded there is a connect().
C17_DisconnectIdempotent ==
  /\ [][(Calls("disconnect") /\ Disconnected) =>
          /\ call'.ret = "undefined"
          /\ call'.at = "none"
          /\ log' = log
          /\ client' = client]_vars
  /\ [](\A j, k \in DOMAIN log :
          (j < k /\ log[j].op = "END" /\ log[j].ok = "ok" /\ log[k].op = "END")
            => \E m \in (j + 1)..(k - 1) : log[m].op = "CONNECT")

\* the second of two disconnect() calls on a connected executor did nothing
C17_Witness ==
  /\ Settles
  /\ call.n = 2
  /\ call.method = "disconnect"
  /\ call.ret = "undefined"
  /\ Len(log) = 2
  /\ log[1].op = "CONNECT"
  /\ log[2] = [op |-> "END", arg |-> <<>>, ok |-> "ok"]

\* ------------------------------------------------------------------------
\* C18
\* ------------------------------------------------------------------------

\* the last operation on the client is ROLLBACK TO SAVEPOINT of `name`,
\* settled as ok
LastIsRollbackTo(name, ok) ==
  /\ log # <<>>
  /\ log[Len(log)] = [op |-> "ROLLBACK TO", arg |-> quoteSqlIdentifier(name),
                      ok |-> IF ok THEN "ok" ELSE "failed"]

\* C18: rollbackToSavepoint never propagates the failure of its statement:
\* on a connected executor it returns true when ROLLBACK TO SAVEPOINT
\* succeeded and false when it failed, and executeFile reports that boolean
\* as rollbackSuccess of the failing result.
C18_RollbackToSavepointReturnsBoolean ==
  /\ (Settles /\ call.method = "rollbackToSavepoint"
        /\ call.ret # "NotConnected") =>
       /\ call.ret \in {"true", "false"}
       /\ LastIsRollbackTo(call.name, call.ret = "true")
  /\ (Settles /\ call.method = "executeFile" /\ call.ret = "result"
        /\ ~call.result.success) =>
       /\ call.result.rollbackSuccess \in BOOLEAN
       /\ LastIsRollbackTo(call.result.savepointName,
                           call.result.rollbackSuccess)
  /\ (Settles /\ call.method = "executeFile" /\ call.ret = "result"
        /\ call.result.success) =>
       /\ call.result.rollbackSuccess = "undefined"
       /\ log[Len(log)].op = "RELEASE"

\* a file failed and its ROLLBACK TO SAVEPOINT failed too: the result says so
C18_Witness ==
  /\ Settles
  /\ call.method = "executeFile"
  /\ call.ret = "result"
  /\ ~call.result.success
  /\ call.result.rollbackSuccess = FALSE
  /\ LastIsRollbackTo(call.name, FALSE)

\* rollbackToSavepoint called directly returned false
C18_DirectCall ==
  /\ Settles
  /\ call.method = "rollbackToSavepoint"
  /\ call.ret = "false"

\* ------------------------------------------------------------------------
\* C19
\* ------------------------------------------------------------------------

\* the error of the result is populated: a message and the file's name
Populated(error) ==
  /\ error.message \in {e.message : e \in ThrownValues}
  /\ error.message # ""
  /\ error.fileName = Basename(call.filePath)

\* the statement batch of the call in flight (or just settled) failed
BatchFailed ==
  /\ call.method = "executeFile"
  /\ call.sqlError # NoSqlError
  /\ \E k \in DOMAIN log :
       /\ log[k].op = "QUERY"
       /\ log[k].ok = "failed"
       /\ k >= Len(log) - 1

\* C19: executeFile fails closed.  On a connected executor a failure of the
\* statement batch, with an Error or any other thrown value, never leaves
\* executeFile: the call goes on to ROLLBACK TO SAVEPOINT and returns a
\* result with success=false and an error with the message and the file
\* name.
C19_ExecuteFileFailsClosed ==
  /\ [][(call.at = "query" /\ call'.at # "query" /\ call'.at # "release") =>
          /\ call'.at = "rollback_to"
          /\ log'[Len(log)].ok = "failed"
          /\ Populated(call'.sqlError)]_vars
  /\ []((BatchFailed /\ Settles) =>
          /\ call.ret = "result"
          /\ call.result.success = FALSE
          /\ call.result.error = call.sqlError
          /\ Populated(call.result.error))

\* the batch was rejected with a value that is not an Error
C19_Witness ==
  /\ Settles
  /\ BatchFailed
  /\ call.ret = "result"
  /\ call.result.success = FALSE
  /\ call.result.error.message = "String error"

\* the batch was rejected with a pg error carrying a position on line 2
C19_WithPosition ==
  /\ Settles
  /\ BatchFailed
  /\ call.ret = "result"
  /\ call.result.error.hasPosition
  /\ call.result.error.position = 4
  /\ call.sql # <<>>

\* ------------------------------------------------------------------------
\* C20
\* ------------------------------------------------------------------------

\* C20: savepoint identifiers are unique within one run: two files executed
\* at different positions get different identifiers from
\* createSavepointName, also when their names are the same or sanitize to
\* the same string.
C20_SavepointNamesUnique ==
  \A a, b \in DOMAIN call.names :
    call.names[a].index # call.names[b].index =>
      call.names[a].savepointName # call.names[b].savepointName

\* "a-b.sql" and "a_b.sql", which sanitize to the same string, were executed
\* at positions 1 and 10
C20_Witness ==
  /\ Len(call.names) = 2
  /\ call.names[1].fileName # call.names[2].fileName
  /\ createSavepointName(call.names[1].fileName, 0) =
       createSavepointName(call.names[2].fileName, 0)
  /\ call.names[1].index = 1
  /\ call.names[2].index = 10
  /\ Issued("SAVEPOINT")

\* the same file executed at two positions
C20_SameFileTwice ==
  /\ Len(call.names) = 2
  /\ call.names[1].fileName = call.names[2].fileName
  /\ call.names[1].index # call.names[2].index

\* ------------------------------------------------------------------------
\* C21: scanSqlFiles partitions the entries matching filePattern, sorts
\* both lists in code unit order and aligns filePaths with files
\* ------------------------------------------------------------------------

\* scanSqlFiles was called on a directory and returned
Scanned == scanner.called /\ scanner.threw = "none"

\* the names of s follow one another in strictly ascending code unit order
Ascending(s) == \A k \in 1..(Len(s) - 1) : LexLess(s[k], s[k + 1])

\* the position of name f in s (0 when it is not there)
IndexOf(s, f) ==
  IF \E k \in DOMAIN s : s[k] = f
    THEN CHOOSE k \in DOMAIN s : s[k] = f
    ELSE 0

\* C21: of the directory entries, one that matches filePattern and
\* ignorePattern is in ignoredFiles and not in files, one that matches
\* filePattern only is in files and not in ignoredFiles, one that does not
\* match filePattern is in neither; no list holds anything else or holds
\* an entry twice; both lists ascend in plain code unit order (so "10.sql"
\* comes before "2.sql"); filePaths[k] is the absolute path of files[k].
C21_ScanPartitionsAndSorts ==
  Scanned =>
    LET r == scanner.result
        entries == Range(scanner.allEntries)
    IN  /\ \A f \in entries :
             /\ (DEFAULT_FILE_PATTERN(f) /\ DEFAULT_IGNORE_PATTERN(f)) =>
                  (f \in Range(r.ignoredFiles) /\ f \notin Range(r.files))
             /\ (DEFAULT_FILE_PATTERN(f) /\ ~DEFAULT_IGNORE_PATTERN(f)) =>
                  (f \in Range(r.files) /\ f \notin Range(r.ignoredFiles))
             /\ ~DEFAULT_FILE_PATTERN(f) =>
                  (f \notin Range(r.files) /\ f \notin Range(r.ignoredFiles))
        /\ Range(r.files) \cup Range(r.ignoredFiles) \subseteq entries
        /\ Cardinality(Range(r.files)) = Len(r.files)
        /\ Cardinality(Range(r.ignoredFiles)) = Len(r.ignoredFiles)
        /\ Ascending(r.files)
        /\ Ascending(r.ignoredFiles)
        /\ ({F10, F2} \subseteq Range(r.files)) =>
             IndexOf(r.files, F10) < IndexOf(r.files, F2)
        /\ Len(r.filePaths) = Len(r.files)
        /\ \A k \in DOMAIN r.files :
             /\ Head(r.filePaths[k]) = 47
             /\ r.filePaths[k] = ResolvedDir \o <<47>> \o r.files[k]

\* a directory listed as 2.sql, _ignored.sql, 10.sql was scanned: the
\* files are 10.sql, 2.sql and the ignored entry is set apart
C21_Witness ==
  /\ Scanned
  /\ scanner.allEntries = <<F2, FIgn, F10>>
  /\ scanner.result.files = <<F10, F2>>
  /\ scanner.result.ignoredFiles = <<FIgn>>
  /\ scanner.result.filePaths = <<ResolvedDir \o <<47>> \o F10,
                                   ResolvedDir \o <<47>> \o F2>>

\* two ignored entries and one entry of another type: README.sql precedes
\* _ignored.sql and A.SQL is in neither list
C21_IgnoredSorted ==
  /\ Scanned
  /\ scanner.allEntries = <<FIgn, FUpper, FReadme>>
  /\ scanner.result.files = <<>>
  /\ scanner.result.ignoredFiles = <<FReadme, FIgn>>

\* ------------------------------------------------------------------------
\* C22: findDetector returns the first detector that can handle the error
\* ------------------------------------------------------------------------

\* the detector registered at position k can handle the error last asked
Handles(k) == canHandle(handler.detectors[k], handler.error, handler.context)

\* the last call was findDetector / was getHelp
FoundDetector == handler.method = "findDetector"
GotHelp == handler.method = "getHelp"

C22_CallerOrder ==
  /\ FoundDetector
  /\ handler.detectors = <<"dns-generic", "dns-direct-connection">>
  /\ handler.context = Url(Urls.Direct)
  /\ handler.detector = 1
  /\ Handles(2)

\* no detector of a registry that is not empty matches: undefined
C22_NoneMatches ==
  /\ FoundDetector
  /\ handler.detectors # <<>>
  /\ handler.detector = 0

\* ------------------------------------------------------------------------
\* C23: classification is total, the generic help is the fallback
\* ------------------------------------------------------------------------

\* no registered detector can handle the error last asked about
NoneHandles == \A k \in DOMAIN handler.detectors : ~Handles(k)

\* the generic help for the error last asked about
IsGenericHelp ==
  /\ handler.help.isKnownError = FALSE
  /\ handler.help.title = "Connection Error"
  /\ handler.help.explanation = handler.error.message

C23_KnownError ==
  /\ GotHelp
  /\ handler.error = AnError("", Msg.Database)
  /\ handler.help.isKnownError
  /\ handler.help.title = "Database Not Found"
  /\ handler.help.explanation =
       Str.TheDatabase \o <<109, 121, 100, 98>> \o Str.NotOnServer

\* an empty registry gives the generic help also for a DNS failure
C23_EmptyRegistry ==
  /\ GotHelp
  /\ handler.detectors = <<>>
  /\ handler.error = AnError("ENOTFOUND", Msg.DnsDirect)
  /\ IsGenericHelp

\* ------------------------------------------------------------------------
\* C24: the default registry classifies DNS failures by the connection URL
\* ------------------------------------------------------------------------

\* the error last asked about is a DNS resolution failure
DnsFailure ==
  \/ handler.error.isError /\ handler.error.code = "ENOTFOUND"
  \/ Contains(handler.error.message, Str.Getaddrinfo)

\* the connection URL holds 'db.' and '.supabase.co'
DirectUrl ==
  /\ handler.context.defined
  /\ Contains(handler.context.databaseUrl, <<100, 98, 46>>)
  /\ Contains(handler.context.databaseUrl, Str.SupabaseCo)

\* the registry starts with the detectors of createDefaultRegistry
DefaultRegistry ==
  /\ Len(handler.detectors) >= Len(createDefaultRegistry)
  /\ SubSeq(handler.detectors, 1, Len(createDefaultRegistry))
       = createDefaultRegistry

\* C24: in the default registry a DNS resolution failure is classified by
\* the direct-connection detector when the URL holds 'db.' and
\* '.supabase.co' and by the generic DNS detector otherwise, whatever
\* other detectors can handle the error as well.
C24_DnsClassification ==
  ((FoundDetector \/ GotHelp) /\ DefaultRegistry /\ DnsFailure) =>
    /\ handler.detector # 0
    /\ handler.detectors[handler.detector] =
         IF DirectUrl THEN "dns-direct-connection" ELSE "dns-generic"
    /\ GotHelp =>
         handler.help.title =
           IF DirectUrl
             THEN "DNS Resolution Failed - Direct Connection (IPv6 Only)"
             ELSE "DNS Resolution Failed"

\* the scenario of the tests: ENOTFOUND for db.p.supabase.co on a direct
\* connection is explained as the IPv6-only case, with the host name
C24_Witness ==
  /\ GotHelp
  /\ handler.detectors = createDefaultRegistry
  /\ handler.error = AnError("ENOTFOUND", Msg.DnsDirect)
  /\ handler.context = Url(Urls.Direct)
  /\ handler.help.isKnownError
  /\ handler.help.title =
       "DNS Resolution Failed - Direct Connection (IPv6 Only)"
  /\ handler.help.explanation =
       Str.CannotResolve \o SubSeq(Msg.DnsDirect, 23, Len(Msg.DnsDirect))

\* a DNS failure whose message the time-out and SSL detectors match too,
\* with a URL that holds only one of the two fragments: generic DNS
C24_OthersMatchToo ==
  /\ GotHelp
  /\ handler.detectors = createDefaultRegistry
  /\ handler.error = AnError("ENOTFOUND", Msg.DnsTimedOut)
  /\ handler.context = Url(Urls.DbOnly)
  /\ Handles(4)
  /\ Handles(8)
  /\ handler.help.title = "DNS Resolution Failed"

\* ------------------------------------------------------------------------
\* C25: the watcher never starts overlapping runs
\* ------------------------------------------------------------------------

\* this step invokes onExecute
InvokesOnExecute == watcher'.invocations = watcher.invocations + 1

\* this step is a change event with a name that matches the pattern / with
\* no name or a name that does not match
MatchingChange == watcher' # watcher /\ watcher'.event = "change"
OtherChange == watcher'.event = "other" /\ watcher.event # "other"

\* C25: at most one onExecute invocation is unsettled at any time;
\* onExecute is invoked only when none is unsettled; no countdown timer is
\* pending during an execution, and a matching change that arrives during
\* an execution sets no timer and no interval.
C25_NoOverlappingRuns ==
  /\ [](/\ watcher.inFlight <= 1
        /\ watcher.inFlight = 1 =>
             (watcher.isExecuting /\ watcher.timeouts = <<>>))
  /\ [][/\ InvokesOnExecute => watcher.inFlight = 0
        /\ (watcher.inFlight > 0 /\ watcher'.event = "change") =>
             /\ watcher'.timeouts = <<>>
             /\ watcher'.countdownTimer = 0
             /\ ~watcher'.countdownInterval]_vars

\* a second run was started after the first one had settled, and a change
\* arrives while it is in progress: nothing is pending
C25_Witness ==
  /\ watcher.invocations = 2
  /\ watcher.inFlight = 1
  /\ watcher.event = "change"
  /\ watcher.queued
  /\ watcher.timeouts = <<>>

\* ------------------------------------------------------------------------
\* C26: a change that arrives during an execution is queued
\* ------------------------------------------------------------------------

\* a matching change was answered with "change queued" and the execution
\* it arrived in is over
QueuedChangeWaiting ==
  /\ watcher.queued
  /\ watcher.inFlight = 0
  /\ ~watcher.isExecuting
  /\ ~watcher.closed

\* C26: once the execution during which a matching change arrived has
\* completed, a further run is on its way for that change (its countdown is
\* pending) without another file change.  Runs are started by the countdown
\* timer only, so where no timer is pending none will start.
C26_QueuedChangeRuns ==
  QueuedChangeWaiting => watcher.timeouts # <<>>

\* while no change arrived during the execution the watcher is idle after it
C26_NothingQueued ==
  /\ watcher.invocations = 1
  /\ watcher.event = "resolved"
  /\ ~watcher.queued
  /\ watcher.timeouts = <<>>

\* ------------------------------------------------------------------------
\* C27: every matching change restarts the countdown, one run per countdown
\* ------------------------------------------------------------------------

\* C27: at most one countdown timer (and one interval) is pending; while no
\* execution is in progress a matching change leaves exactly one timer, a
\* full countdown away; onExecute is invoked only when countdownSeconds
\* have passed since the most recent matching change, once for that change,
\* and it is due as soon as they have passed; a change without a name or
\* with a name that does not match changes nothing.
C27_CountdownRestarts ==
  /\ [](/\ Len(watcher.timeouts) <= 1
        /\ (watcher.timeouts # <<>>) =>
             /\ watcher.countdownTimer = 1
             /\ watcher.countdownInterval
             /\ watcher.sinceChange >= 0
             /\ watcher.timeouts[1] + watcher.sinceChange
                  = watcher.countdownSeconds
        /\ (/\ watcher.sinceChange >= watcher.countdownSeconds
            /\ ~watcher.closed) =>
             watcher.timeouts = <<0>>)
  /\ [][/\ (MatchingChange /\ ~watcher.isExecuting) =>
             /\ watcher'.timeouts = <<watcher.countdownSeconds>>
             /\ watcher'.secondsRemaining = watcher.countdownSeconds
        /\ InvokesOnExecute =>
             /\ watcher.sinceChange = watcher.countdownSeconds
             /\ watcher'.sinceChange = -1
             /\ watcher'.timeouts = <<>>
        /\ OtherChange =>
             watcher' = [watcher EXCEPT !.event = "other"]]_vars

\* with a countdown of two seconds: a change, a second later another one,
\* and the run starts two seconds after the second change
C27_Witness ==
  /\ watcher.countdownSeconds = 2
  /\ watcher.invocations = 1
  /\ watcher.event = "execute"
  /\ watcher.secondsRemaining = 0

\* the countdown was restarted when one of its two seconds had passed
C27_Restarted ==
  /\ watcher.countdownSeconds = 2
  /\ watcher.event = "change"
  /\ watcher.timeouts = <<2>>
  /\ watcher.invocations = 0

\* ------------------------------------------------------------------------
\* C28: after cleanup nothing runs any more
\* ------------------------------------------------------------------------

\* C28: once the cleanup function was called the watcher is closed for
\* good, no timer and no interval is pending, no change event is handled
\* and onExecute is never invoked again.
C28_CleanupStopsCountdown ==
  /\ [](watcher.closed =>
          /\ watcher.timeouts = <<>>
          /\ watcher.countdownTimer = 0
          /\ ~watcher.countdownInterval)
  /\ [][watcher.closed =>
          /\ watcher'.closed
          /\ watcher'.invocations = watcher.invocations
          /\ watcher'.event \notin {"change", "other", "execute"}]_vars

\* cleanup was called while a countdown was pending, and more time than
\* the countdown has passed since
C28_Witness ==
  /\ watcher.closed
  /\ watcher.invocations = 0
  /\ watcher.sinceChange > watcher.countdownSeconds
  /\ watcher.event = "tick"

\* cleanup during an execution: that execution still settles
C28_DuringExecution ==
  /\ watcher.closed
  /\ watcher.invocations = 1
  /\ watcher.event = "resolved"

\* ------------------------------------------------------------------------
\* C30
\* ------------------------------------------------------------------------

\* executeFile has read its file: a statement of it is awaited, or it has
\* returned its result
FileInHand ==
  /\ call.method = "executeFile"
  /\ call.at # "none" \/ call.ret \notin {"NotConnected", "read"}

\* the statements of the file in hand: the log from its SAVEPOINT on
OwnStatements ==
  LET first == CHOOSE k \in DOMAIN log :
                 /\ log[k].op = "SAVEPOINT"
                 /\ \A j \in DOMAIN log : j > k => log[j].op # "SAVEPOINT"
  IN  SubSeq(log, first, Len(log))

OwnOps == [k \in DOMAIN OwnStatements |-> OwnStatements[k].op]

\* C30: executeFile issues SAVEPOINT sp, the content of the file as one
\* batch and RELEASE SAVEPOINT sp, in this order and each after the one
\* before succeeded; it returns success=true only if the three succeeded;
\* when one of them fails, exactly one ROLLBACK TO SAVEPOINT sp follows, no
\* RELEASE comes after it, and the result has success=false.  sp is the
\* quoted identifier createSavepointName gives the file at its position.
C30_SavepointProtocol ==
  /\ [][(call'.method = "executeFile" /\ Len(log') > Len(log)) =>
          /\ log' = Append(SubSeq(log', 1, Len(log)), log'[Len(log')])
          /\ (log'[Len(log')].op = "SAVEPOINT") <=> (call.at = "none")]_vars
  /\ [](FileInHand =>
          /\ call.name = createSavepointName(Basename(call.filePath),
                                             call.index)
          /\ call.sql = SqlContent(call.filePath)
          /\ OwnOps \in { << "SAVEPOINT" >>,
                          << "SAVEPOINT", "QUERY" >>,
                          << "SAVEPOINT", "QUERY", "RELEASE" >>,
                          << "SAVEPOINT", "ROLLBACK TO" >>,
                          << "SAVEPOINT", "QUERY", "ROLLBACK TO" >>,
                          << "SAVEPOINT", "QUERY", "RELEASE", "ROLLBACK TO" >> }
          /\ \A k \in DOMAIN OwnStatements :
               /\ OwnStatements[k].arg =
                    IF OwnOps[k] = "QUERY" THEN call.filePath
                    ELSE quoteSqlIdentifier(call.name)
               /\ k < Len(OwnStatements) =>
                    OwnStatements[k].ok =
                      IF OwnOps[k + 1] = "ROLLBACK TO" THEN "failed" ELSE "ok"
          /\ Settles =>
               /\ call.ret = "result"
               /\ OwnStatements[Len(OwnStatements)].ok # "pending"
               /\ call.result.savepointName = call.name
               /\ call.result.success <=>
                    /\ OwnOps = << "SAVEPOINT", "QUERY", "RELEASE" >>
                    /\ OwnStatements[3].ok = "ok"
               /\ ~ call.result.success <=>
                    OwnOps[Len(OwnOps)] = "ROLLBACK TO")

\* the three statements succeeded and the result says so
C30_Witness ==
  /\ FileInHand
  /\ Settles
  /\ call.result.success
  /\ OwnOps = << "SAVEPOINT", "QUERY", "RELEASE" >>

\* the RELEASE failed: one ROLLBACK TO SAVEPOINT follows it
C30_ReleaseFailed ==
  /\ FileInHand
  /\ Settles
  /\ ~ call.result.success
  /\ OwnOps = << "SAVEPOINT", "QUERY", "RELEASE", "ROLLBACK TO" >>

\* the SAVEPOINT itself failed: the batch is not sent
C30_SavepointFailed ==
  /\ FileInHand
  /\ Settles
  /\ OwnOps = << "SAVEPOINT", "ROLLBACK TO" >>
  /\ call.result.rollbackSuccess = FALSE

\* ------------------------------------------------------------------------
\* C29
\* ------------------------------------------------------------------------

\* the value the priority order gives option f: the command line's if the
\* command line gives one, else the config file's, else the default, and
\* nothing when none of the three has it
Merged == merger.called

HasPriorityValue(f) ==
  IF f \in DOMAIN merger.argv
    THEN f \in DOMAIN merger.result /\ merger.result[f] = merger.argv[f]
  ELSE IF f \in DOMAIN FileKeys /\ FileKeys[f] \in DOMAIN merger.fileConfig
    THEN /\ f \in DOMAIN merger.result
         /\ merger.result[f] = merger.fileConfig[FileKeys[f]]
  ELSE IF f \in DOMAIN CLI_DEFAULTS
    THEN merger.result[f] = CLI_DEFAULTS[f]
  ELSE f \notin DOMAIN merger.result

\* C29: for every option the merged configuration holds the value given on
\* the command line; if the command line gives none, the value of the config
\* file; if that gives none either, the built-in default.
C29_CommandLineWins ==
  Merged => \A f \in DOMAIN ArgValues \cup DOMAIN FileKeys :
              HasPriorityValue(f)

\* the order holds for every option whose command line value, if any,
\* differs from the default
C29_WinsUnlessDefault ==
  Merged =>
    \A f \in DOMAIN ArgValues \cup DOMAIN FileKeys :
      \/ HasPriorityValue(f)
      \/ /\ f \in DOMAIN merger.argv
         /\ merger.argv[f] = CLI_DEFAULTS[f]
         /\ FileKeys[f] \in DOMAIN merger.fileConfig
         /\ merger.result[f] = merger.fileConfig[FileKeys[f]]

\* the command line and the config file give different values to an option
C29_BothGiven ==
  /\ Merged
  /\ \E f \in DOMAIN merger.argv \cap DOMAIN FileKeys :
       /\ FileKeys[f] \in DOMAIN merger.fileConfig
       /\ merger.argv[f] # merger.fileConfig[FileKeys[f]]
       /\ merger.result[f] = merger.argv[f]

\* the directory given on the command line is the default one and the
\* merged configuration holds the directory of the config file
C29_FileBeatsCommandLine ==
  /\ Merged
  /\ "sqlDirectory" \in DOMAIN merger.argv
  /\ merger.argv["sqlDirectory"] = "./sql"
  /\ "directory" \in DOMAIN merger.fileConfig
  /\ merger.result["sqlDirectory"] = "./config-sql"

\* ------------------------------------------------------------------------
\* C31
\* ------------------------------------------------------------------------

\* the ROLLBACK TO SAVEPOINT of a failed file failed too
SavepointRollbackFailed ==
  \E k \in DOMAIN log : log[k].op = "ROLLBACK TO" /\ log[k].ok = "failed"

\* operation a was issued, and operation b after it
IssuedInOrder(a, b) ==
  \E j, k \in DOMAIN log : j < k /\ log[j].op = a /\ log[k].op = b

\* executeFile returned success=false with rollbackSuccess=false
FailingResultWithoutRollback ==
  /\ results # <<>>
  /\ ~results[Len(results)].success
  /\ results[Len(results)].rollbackSuccess = FALSE

\* C31: when a file fails and its ROLLBACK TO SAVEPOINT fails as well,
\* executeFile returns a result with success=false and rollbackSuccess=false
\* and the runner issues the outer ROLLBACK and, after it, disconnects.
C31_SecondaryFailureTolerated ==
  SavepointRollbackFailed =>
    /\ FailingResultWithoutRollback
    /\ Done => IssuedInOrder("ROLLBACK", "END")

\* the same, except when onAfterFile threw on the failing result and onError
\* was invoked and threw: the connection is then closed without the outer
\* ROLLBACK
C31_UnlessOnErrorThrows ==
  SavepointRollbackFailed =>
    /\ FailingResultWithoutRollback
    /\ Done => \/ IssuedInOrder("ROLLBACK", "END")
               \/ /\ ThrewError
                  /\ outcome.error \in {"onError", "end"}
                  /\ Invoked("onError") = 1
                  /\ Invoked("onAfterFile") = Len(results)
                  /\ ~Issued("ROLLBACK")
                  /\ Issued("END")

\* both rollbacks were attempted and the summary returned
C31_BothRollbacksAttempted ==
  /\ Done
  /\ SavepointRollbackFailed
  /\ ReturnedSummary
  /\ IssuedInOrder("ROLLBACK TO", "ROLLBACK")
  /\ IssuedInOrder("ROLLBACK", "END")

\* ------------------------------------------------------------------------
\* C32
\* ------------------------------------------------------------------------

BothDone == \A r \in Invocations : runs.inv[r].pc = "done"

\* invocation r opened a connection: its executor got a client
Opened(r) == runs.clients[r] # "none"

\* the operations invocation r has issued: those that settled and the one
\* it awaits, each with the executor whose client it went to
IssuedBy(r) ==
  { [op |-> o.op, on |-> o.on] : o \in runs.inv[r].ops }
    \cup (IF runs.inv[r].op = "none" THEN {}
          ELSE {[op |-> runs.inv[r].op, on |-> runs.inv[r].on]})

\* client.end() was called on the connection of invocation r
Ended(r) ==
  \E q \in Invocations : [op |-> "END", on |-> r] \in IssuedBy(q)

\* C32: each run() uses only the connection it opened: every operation an
\* invocation issues (BEGIN, the statements of its files, ROLLBACK, COMMIT,
\* the disconnect) goes to the client of the executor that invocation
\* created, and the connection of each invocation is disconnected before
\* both have finished.
C32_OwnConnectionOnly ==
  /\ \A r \in Invocations : \A o \in IssuedBy(r) : o.on = r
  /\ BothDone => \A r \in Invocations : Opened(r) => Ended(r)

\* the second invocation was called after the first one had finished
Serialized == ~runs.overlapped

\* the same for invocations that do not overlap and whose client.end() was
\* not rejected
C32_WhenSerialized ==
  (/\ Serialized
   /\ \A r \in Invocations :
        [op |-> "END", on |-> r, ok |-> FALSE] \notin runs.inv[r].ops) =>
    C32_OwnConnectionOnly

\* an invocation committed on the connection the other one opened
C32_CommitsOnForeignConnection ==
  \E r, e \in Invocations :
    /\ r # e
    /\ [op |-> "COMMIT", on |-> e, ok |-> TRUE] \in runs.inv[r].ops

\* both invocations finished and a connection was never closed
C32_ConnectionLeaked ==
  /\ BothDone
  /\ \E r \in Invocations : runs.clients[r] = "open" /\ ~Ended(r)

\* ------------------------------------------------------------------------
\* C33
\* ------------------------------------------------------------------------

\* this step is the rejection of the promise onExecute returned
ExecutionRejects ==
  /\ watcher'.inFlight = watcher.inFlight - 1
  /\ watcher'.event = "rejected"

\* C33: a failed execution does not stop the watcher.  When onExecute
\* rejects, isExecuting is cleared, one warning is logged and nothing else
\* changes (the watcher stays open); every failure is logged as a warning and
\* nothing else is; after a failure a matching change starts a full
\* countdown as before, and the timer of that countdown invokes onExecute.
C33_FailureKeepsWatching ==
  /\ [][ExecutionRejects =>
          /\ ~watcher'.isExecuting
          /\ watcher' = [watcher EXCEPT !.inFlight = @ - 1,
                                        !.isExecuting = FALSE,
                                        !.warnings = @ + 1,
                                        !.event = "rejected"]]_vars
  /\ [][(watcher'.warnings # watcher.warnings) =>
          /\ watcher'.warnings = watcher.warnings + 1
          /\ ExecutionRejects \/ InvokesOnExecute
          /\ ~watcher'.isExecuting]_vars
  /\ [][(watcher.warnings > 0 /\ MatchingChange /\ watcher.inFlight = 0) =>
          /\ watcher'.timeouts = << watcher.countdownSeconds >>
          /\ watcher'.countdownTimer = 1]_vars
  /\ []((/\ watcher.warnings > 0
         /\ watcher.timeouts # <<>>
         /\ watcher.timeouts[1] = 0
         /\ watcher.invocations < MaxExecutions)
          => ENABLED (\E throws \in BOOLEAN : TimerFires(1, throws)))

\* onExecute rejected, a file changed afterwards and onExecute runs again
C33_Witness ==
  /\ watcher.warnings = 1
  /\ watcher.invocations = 2
  /\ watcher.inFlight = 1
  /\ watcher.event = "execute"

\* the countdown after a failed execution is running
C33_CountdownAfterFailure ==
  /\ watcher.warnings = 1
  /\ watcher.invocations = 1
  /\ watcher.event = "change"
  /\ watcher.timeouts = << watcher.countdownSeconds >>

\* ------------------------------------------------------------------------
\* C34
\* ------------------------------------------------------------------------

\* the scan found files and onlyFiles / skipFiles left none of them
EmptyAfterFiltering ==
  /\ pc # "idle"
  /\ scan.files # <<>>
  /\ filesToExecute = <<>>

\* C34: when the list of files to execute is empty after applying onlyFiles
\* and skipFiles, run() opens no connection, issues neither BEGIN nor COMMIT
\* and returns a summary with committed=false and totalFiles=0.
C34_EmptyListIsNoOp ==
  EmptyAfterFiltering =>
    /\ ~Issued("CONNECT")
    /\ ~Issued("BEGIN")
    /\ ~Issued("COMMIT")
    /\ Done => /\ ReturnedSummary
               /\ outcome.summary.committed = FALSE
               /\ outcome.summary.totalFiles = 0

\* onlyFiles names no file of the directory: the run connects, commits the
\* empty transaction and reports committed=true
C34_CommitsNothing ==
  /\ Done
  /\ EmptyAfterFiltering
  /\ opts.onlyFiles # <<>>
  /\ IssuedOk("BEGIN")
  /\ IssuedOk("COMMIT")
  /\ ReturnedSummary
  /\ outcome.summary.committed = TRUE
  /\ outcome.summary.totalFiles = 0

\* the same when skipFiles removes every file
C34_AllSkipped ==
  /\ Done
  /\ EmptyAfterFiltering
  /\ opts.onlyFiles = <<>>
  /\ opts.skipFiles # <<>>
  /\ ReturnedSummary
  /\ outcome.summary.committed = TRUE

\* ------------------------------------------------------------------------
\* C35
\* ------------------------------------------------------------------------

\* the exception of config.onComplete is being handled, or was handed to
\* config.onError
OnCompleteThrew ==
  \/ pc = "catch" /\ err = "onComplete"
  \/ \E k \in DOMAIN cbs : cbs[k].cb = "onError" /\ cbs[k].error = "onComplete"

\* C35: once COMMIT has succeeded in a run, no ROLLBACK is issued on that
\* connection, onError is not invoked, and run() returns a summary with
\* committed=true instead of throwing, whatever onComplete does.
C35_CommitIsFinal ==
  IssuedOk("COMMIT") =>
    /\ ~Issued("ROLLBACK")
    /\ Invoked("onError") = 0
    /\ Done /\ ~Issued("END") => /\ ReturnedSummary
                                /\ outcome.summary.committed = TRUE

\* the exception of onComplete is the only way out of a committed run:
\* without it no ROLLBACK follows the COMMIT, onError is not invoked, and
\* the run returns committed=true unless client.end() is rejected
C35_UnlessOnCompleteThrows ==
  IssuedOk("COMMIT") /\ ~OnCompleteThrew =>
    /\ ~Issued("ROLLBACK")
    /\ Invoked("onError") = 0
    /\ pc # "catch"
    /\ Done => \/ ReturnedSummary /\ outcome.summary.committed = TRUE
               \/ ThrewError /\ outcome.error = "end"

\* COMMIT succeeded, onComplete threw: onError is invoked, ROLLBACK is sent
\* after the COMMIT and run() throws
C35_RollbackAfterCommit ==
  /\ Done
  /\ IssuedOk("COMMIT")
  /\ IssuedInOrder("COMMIT", "ROLLBACK")
  /\ Invoked("onComplete") = 1
  /\ Invoked("onError") = 1
  /\ ThrewError
  /\ outcome.error = "onComplete"

\* ------------------------------------------------------------------------
\* C36
\* ------------------------------------------------------------------------

\* the last connect() was rejected and nothing replaced its client
ConnectFailed == client = "failed"

\* C36: if connect() fails, the executor stays Disconnected: a following
\* beginTransaction, commit or rollback fails with 'Database not connected'
\* and issues no statement on the unconnected client, and disconnect() is a
\* no-op.
C36_FailedConnectStaysDisconnected ==
  [][(ConnectFailed /\ call.at = "none" /\ call'.n = call.n + 1) =>
       /\ call'.method \in {"beginTransaction", "commit", "rollback"} =>
            /\ call'.ret = "NotConnected"
            /\ call'.at = "none"
            /\ log' = log
       /\ call'.method = "disconnect" =>
            /\ call'.ret = "undefined"
            /\ call'.at = "none"
            /\ log' = log]_vars

\* BEGIN was sent on the client whose connect() had been rejected
C36_BeginOnFailedClient ==
  /\ call.method = "beginTransaction"
  /\ call.at = "stmt"
  /\ ConnectFailed
  /\ log[Len(log)].op = "BEGIN"
  /\ Len(log) > 1
  /\ log[Len(log) - 1] = [op |-> "CONNECT", arg |-> <<>>, ok |-> "failed"]

\* disconnect() called client.end() on the client that never connected
C36_EndOnFailedClient ==
  /\ call.method = "disconnect"
  /\ call.at = "end"
  /\ ConnectFailed
  /\ log[Len(log)].op = "END"

\* the runner after a rejected connect(): its catch block sends ROLLBACK and
\* its finally block calls client.end() on the unconnected client
C36_RunnerAfterFailedConnect ==
  /\ Done
  /\ \E k \in DOMAIN log : log[k].op = "CONNECT" /\ log[k].ok = "failed"
  /\ ~Issued("BEGIN")
  /\ IssuedInOrder("CONNECT", "ROLLBACK")
  /\ IssuedInOrder("ROLLBACK", "END")

\* ------------------------------------------------------------------------
\* C37
\* ------------------------------------------------------------------------

\* COMMIT or ROLLBACK was sent before client.end()
EndedTransactionFirst ==
  \E j, k \in DOMAIN log :
    j < k /\ log[j].op \in {"COMMIT", "ROLLBACK"} /\ log[k].op = "END"

\* BEGIN is sent once, ahead of every savepoint and file statement
BeginOnceAndFirst ==
  /\ Cardinality({k \in DOMAIN log : log[k].op = "BEGIN"}) <= 1
  /\ \A k \in DOMAIN log :
       log[k].op \in {"SAVEPOINT", "QUERY", "RELEASE", "ROLLBACK TO"} =>
         \E j \in 1..(k - 1) : log[j].op = "BEGIN" /\ log[j].ok = "ok"

\* C37: every run in which BEGIN succeeded attempts COMMIT or ROLLBACK on
\* that connection before it disconnects; no exit path of run() disconnects
\* while the outer transaction has been neither committed nor asked to roll
\* back, and BEGIN is issued exactly once and before any savepoint or file
\* statement.
C37_TransactionEndedBeforeDisconnect ==
  /\ (IssuedOk("BEGIN") /\ Issued("END")) => EndedTransactionFirst
  /\ (IssuedOk("BEGIN") /\ Done) => Issued("END")
  /\ BeginOnceAndFirst

\* the same, except for the runs in which onError was invoked and threw
C37_UnlessOnErrorThrows ==
  /\ (IssuedOk("BEGIN") /\ Issued("END")) =>
        \/ EndedTransactionFirst
        \/ /\ Invoked("onError") = 1
           /\ err \in {"onError", "end"}
           /\ ~Issued("COMMIT")
           /\ ~Issued("ROLLBACK")
  /\ (IssuedOk("BEGIN") /\ Done) => Issued("END")
  /\ BeginOnceAndFirst

\* a file was executed in the open transaction, onBeforeFile of the next one
\* threw, onError threw: the connection is closed with the transaction open
C37_DisconnectsOpenTransaction ==
  /\ Done
  /\ IssuedOk("BEGIN")
  /\ IssuedOk("QUERY")
  /\ IssuedOk("END")
  /\ ~Issued("COMMIT")
  /\ ~Issued("ROLLBACK")
  /\ Invoked("onError") = 1

\* ------------------------------------------------------------------------
\* C38
\* ------------------------------------------------------------------------

\* the run is inside the try of its file loop (lines 220-279)
InFileLoop == pc \in HandlerAwaits \cup {"loop"}

\* C38: a cancellation requested during one run never affects a later run
\* on the same SqlRunner: the cancellation flag is false when a run enters
\* its file loop and is only set by a SIGINT received inside the loop of the
\* run in progress; the interrupt handler of a run is registered exactly
\* while the run is in its loop, so it is removed on every exit (normal end,
\* failure, cancellation, exception) and none remains after a run.
C38_CancellationStaysInItsRun ==
  /\ [][(~InFileLoop /\ InFileLoop') => ~abortRequested']_vars
  /\ [][(~abortRequested /\ abortRequested') =>
          (InFileLoop /\ InFileLoop' /\ runNo' = runNo)]_vars
  /\ [](sigintListeners = IF InFileLoop THEN 1 ELSE 0)
  /\ [](pc = "abort_rollback" => abortRequested)

\* the second run of a SqlRunner is about to enter its loop; the run before
\* it was cancelled (the flag is still set) and its handler is gone
C38_Witness ==
  /\ runNo = 2
  /\ pc = "begin"
  /\ abortRequested
  /\ sigintListeners = 0

\* a run after a cancelled one executed all its files and committed
C38_LaterRunCommits ==
  /\ runNo = 2
  /\ Done
  /\ ReturnedSummary
  /\ outcome.summary.committed = TRUE
  /\ outcome.summary.totalFiles > 0
  /\ ~abortRequested
  /\ sigintListeners = 0

\* ------------------------------------------------------------------------
\* C39
\* ------------------------------------------------------------------------

\* C39: every summary returned by run() satisfies: totalFiles = length of
\* results = successfulFiles + failedFiles, failedFiles is 0 or 1,
\* allSuccessful holds exactly when failedFiles = 0, a failing result, when
\* present, is the last entry, and results is a prefix of the filtered
\* execution list in order.
C39_SummaryInvariants ==
  ReturnedSummary =>
    LET s == outcome.summary
    IN  /\ s.totalFiles = Len(s.results)
        /\ s.totalFiles = s.successfulFiles + s.failedFiles
        /\ s.failedFiles \in {0, 1}
        /\ s.allSuccessful <=> (s.failedFiles = 0)
        /\ \A k \in DOMAIN s.results :
             ~s.results[k].success => k = Len(s.results)
        /\ Len(s.results) <= Len(filesToExecute)
        /\ \A k \in DOMAIN s.results :
             /\ s.results[k].filePath = filesToExecute[k]
             /\ s.results[k].fileName = fileNames[k]

\* the second of three files failed: two results, the failing one last
C39_Witness ==
  /\ Done
  /\ ReturnedSummary
  /\ Len(filesToExecute) = 3
  /\ outcome.summary.totalFiles = 2
  /\ outcome.summary.successfulFiles = 1
  /\ outcome.summary.failedFiles = 1
  /\ ~outcome.summary.allSuccessful
  /\ ~outcome.summary.results[2].success

\* a cancelled run: a proper prefix without any failure
C39_CancelledPrefix ==
  /\ Done
  /\ ReturnedSummary
  /\ Len(filesToExecute) = 3
  /\ outcome.summary.totalFiles = 1
  /\ outcome.summary.allSuccessful
  /\ ~outcome.summary.committed
====
